---- MODULE Spec2Model ----
(***************************************************************************)
(* The WebRTC signaling server of Live Audio Share: the socket.io event    *)
(* handlers that keep the current host, the viewer map and the per-viewer  *)
(* quality reports, and the messages they emit.  Two variants of the       *)
(* server are in the repository (the last server of src/server.js and the  *)
(* cleaned server of src/unnamed/part_004); they differ in the disconnect  *)
(* handler and are told apart by the variable variant.                     *)
(***************************************************************************)
EXTENDS Integers, Sequences, FiniteSets, Bags, TLC

\* ------------------------------------------------------------------ bounds
NumSockets == 3          \* connections ever opened in a run
MaxTime == 1             \* Date.now() ranges over 0..MaxTime
RelaySockets == 2        \* connections ever opened in a run with relays
MaxAdvances == 2         \* times the clock of the session store moves in a run
StoreSockets == 1        \* connections ever opened in a run next to the session store
PageSockets == 2         \* sockets ever opened in a run of the browser pages (a page that connects again gets a new one)
FlushSockets == 3        \* pages ever opened in a run in which a host page has two listeners
MaxOverlap == 0          \* createPeer calls in flight on a host page when getDisplayMedia resolves
MaxClicks == 2           \* clicks (join, start, stop) in a run of the pages
MaxEvents == 3           \* clicks, closed pages, lost connections, ICE candidates and rounds of the quality report in a run of the pages
FlushClicks == 3         \* clicks in a run in which a host page has two listeners
FlushEvents == 4         \* clicks, closed pages and the rest in such a run
LateSockets == 3         \* sockets ever opened in a run in which a listener joins a host page that streams
LateClicks == 2          \* clicks in such a run
LateEvents == 3          \* clicks, lost connections and the rest in such a run

\* --------------------------------------------------------------- constants
Null == 0                \* let hostSocketId = null (also a falsy target id)
SESSION_MAX_AGE == 86400000          \* 24 * 60 * 60 * 1000 ms
SESSION_CLEANUP_INTERVAL == 300000   \* 5 * 60 * 1000 ms

SocketIds == 1..NumSockets
\* ids a client may name as a target: any socket id, or a falsy id
TargetIds == {Null} \cup SocketIds
Sdps == {"X", "Y"}       \* sdp / candidate values a client may send
\* listener-stats payloads: each carries its own set of fields
Reports == {[rttMs |-> 10], [jitterMs |-> 5], [viewerId |-> 1, rttMs |-> 10]}

VARIABLES
    variant,       \* which server file runs
    nextId,        \* the next socket.id the transport assigns
    connected,     \* sockets whose connection is open
    hostSocketId,  \* let hostSocketId
    viewers,       \* const viewers = new Map(): <<[id, createdAt], ...>> in insertion order
    viewerStats,   \* const viewerStats = new Map(): id -> report
    now,           \* Date.now()
    ev,            \* the event the last step handled, with the registry it found
    sent,          \* the emit calls of the last step, in order
    lastStats,     \* the payload of the last stats broadcast (history)
    joined,        \* per socket: "none" | "joined" | "hostgone" (history)
    sessions,      \* const sessions = new Map(): <<[id, role, createdAt], ...>> in insertion order
    nextSweep,     \* when the setInterval timer of the session cleanup fires next
    advances,      \* how often the clock of the session store has moved
    scenario,      \* how far the run has followed the end-to-end run (history)
    hist,          \* the displaced hosts, in a run that keeps track of them (history)
    page           \* the browser pages and the messages in flight, per socket

vars == <<variant, nextId, connected, hostSocketId, viewers, viewerStats,
          now, ev, sent, lastStats, joined, sessions, nextSweep, advances,
          scenario, hist, page>>

\* ----------------------------------------------------------- Map helpers
\* [...viewers.keys()] : the keys in insertion order
Keys(vw) == [i \in 1..Len(vw) |-> vw[i].id]

\* the key set of the Map
KeySet(vw) == {vw[i].id : i \in 1..Len(vw)}

\* viewers.has(id)
Has(vw, id) == id \in KeySet(vw)

\* MapSet with a fault: the entry is always appended
MapSetAppends(vw, id, t) == Append(vw, [id |-> id, createdAt |-> t])

\* viewers.set(id, {createdAt}): an existing key keeps its place
MapSet(vw, id, t) ==
    IF Has(vw, id)
    THEN [i \in 1..Len(vw) |-> IF vw[i].id = id THEN [id |-> id, createdAt |-> t] ELSE vw[i]]
    ELSE Append(vw, [id |-> id, createdAt |-> t])

\* MapDelete with a fault: nothing is deleted
MapDeleteNothing(vw, id) == vw

\* MapDelete with a fault: every entry from the deleted one on is dropped
MapDeleteTail(vw, id) ==
    IF Has(vw, id)
    THEN SubSeq(vw, 1, (CHOOSE i \in 1..Len(vw) : vw[i].id = id) - 1)
    ELSE vw

\* viewers.delete(id)
MapDelete(vw, id) == SelectSeq(vw, LAMBDA e : e.id # id)

\* viewerStats.delete(id)
StatsDelete(vs, id) == [k \in (DOMAIN vs) \ {id} |-> vs[k]]

\* StatsSet with a fault: the fields of the stored report that the new one
\* lacks are kept
StatsSetMerges(vs, id, report) ==
    [k \in (DOMAIN vs) \cup {id} |->
        IF k # id THEN vs[k]
        ELSE IF id \notin DOMAIN vs THEN report
        ELSE [f \in (DOMAIN vs[id]) \cup (DOMAIN report) |->
                 IF f \in DOMAIN report THEN report[f] ELSE vs[id][f]]]

\* viewerStats.set(id, report)
StatsSet(vs, id, report) ==
    [k \in (DOMAIN vs) \cup {id} |-> IF k = id THEN report ELSE vs[k]]

\* ------------------------------------------------------------- emitting
NoData == [none |-> TRUE]

\* io.to(target).emit(event, data)
EmitTo(out, target, event, data) ==
    Append(out, [all |-> FALSE, to |-> target, event |-> event, data |-> data])

\* io.emit(event, data)
EmitAll(out, event, data) ==
    Append(out, [all |-> TRUE, to |-> Null, event |-> event, data |-> data])

\* EmitToEachViewer with a fault: the loop ends after the first viewer
EmitToFirstViewer(out, vw, i, event) ==
    IF i > Len(vw) THEN out ELSE EmitTo(out, vw[i].id, event, NoData)

\* viewers.forEach((_, vid) => io.to(vid).emit(event)), in insertion order
RECURSIVE EmitToEachViewer(_, _, _, _)
EmitToEachViewer(out, vw, i, event) ==
    IF i > Len(vw) THEN out
    ELSE EmitToEachViewer(EmitTo(out, vw[i].id, event, NoData), vw, i + 1, event)

\* EmitViewerJoinedEach with a fault: each viewer-joined goes to the viewer it names
RECURSIVE EmitViewerJoinedToViewers(_, _, _, _)
EmitViewerJoinedToViewers(out, vw, i, h) ==
    IF i > Len(vw) THEN out
    ELSE EmitViewerJoinedToViewers(
             EmitTo(out, vw[i].id, "viewer-joined", [viewerId |-> vw[i].id]), vw, i + 1, h)

\* viewers.forEach((_, vid) => io.to(hostSocketId).emit('viewer-joined', {viewerId: vid}))
RECURSIVE EmitViewerJoinedEach(_, _, _, _)
EmitViewerJoinedEach(out, vw, i, h) ==
    IF i > Len(vw) THEN out
    ELSE EmitViewerJoinedEach(EmitTo(out, h, "viewer-joined", [viewerId |-> vw[i].id]),
                              vw, i + 1, h)

\* StatsPayload with a fault: hostPresent does not follow hostSocketId
StatsPayloadHostTrue(h, vw) ==
    [viewerCount |-> Len(vw), hostPresent |-> TRUE, viewerIds |-> Keys(vw)]

\* the payload of broadcastStats
StatsPayload(h, vw) ==
    [viewerCount |-> Len(vw), hostPresent |-> (h # Null), viewerIds |-> Keys(vw)]

\* BroadcastStats with a fault: the snapshot goes to the host alone
BroadcastStatsToHost(out, h, vw) == EmitTo(out, h, "stats", StatsPayload(h, vw))

\* broadcastStats(): io.emit('stats', {...})
BroadcastStats(out, h, vw) == EmitAll(out, "stats", StatsPayload(h, vw))

\* what socket s receives of the emit calls out: a socket that is not connected
\* is in no room and receives nothing
Delivered(out, conn, s) ==
    IF s \in conn THEN SelectSeq(out, LAMBDA m : m.all \/ m.to = s) ELSE <<>>

\* ------------------------------------------------------------ histories
NoStats == [viewerCount |-> -1, hostPresent |-> FALSE, viewerIds |-> <<>>]

\* the payload of the last stats emitted, after the emit calls out
LastStatsAfter(old, out) ==
    LET idx == {i \in 1..Len(out) : out[i].event = "stats"}
    IN  IF idx = {} THEN old ELSE out[CHOOSE i \in idx : \A j \in idx : j <= i].data

\* who has joined: a socket is "joined" once its viewer-join found a host,
\* "hostgone" once the host of that time has disconnected, "none" once it has
\* itself disconnected
JoinedAfter(j, e) ==
    IF e.name = "viewer-join" /\ e.host # Null
    THEN [j EXCEPT ![e.from] = "joined"]
    ELSE IF e.name = "disconnect" /\ e.from = e.host
    THEN [s \in SocketIds |-> IF s = e.from THEN "none"
                              ELSE IF j[s] = "joined" THEN "hostgone" ELSE j[s]]
    ELSE IF e.name = "disconnect"
    THEN [j EXCEPT ![e.from] = "none"]
    ELSE j

\* the end-to-end run: host a registers (step 1), viewer b joins (2), a offers
\* sdp "X" to b (3), b answers sdp "Y" to a (4), a disconnects (5); the
\* connections before the run do not count, any other event ends the run
\* (step -1)
ScenarioAfter(sc, e) ==
    IF sc.step = 0 /\ e.name = "connection" THEN sc
    ELSE IF sc.step = 0 /\ e.name = "register-host" /\ e.host = Null
    THEN [step |-> 1, a |-> e.from, b |-> Null]
    ELSE IF sc.step = 1 /\ e.name = "viewer-join" /\ e.from # sc.a
    THEN [step |-> 2, a |-> sc.a, b |-> e.from]
    ELSE IF /\ sc.step = 2 /\ e.name = "webrtc-offer" /\ e.from = sc.a
            /\ e.target = sc.b /\ e.sdp = "X"
    THEN [sc EXCEPT !.step = 3]
    ELSE IF /\ sc.step = 3 /\ e.name = "webrtc-answer" /\ e.from = sc.b
            /\ e.target = sc.a /\ e.sdp = "Y"
    THEN [sc EXCEPT !.step = 4]
    ELSE IF sc.step = 4 /\ e.name = "disconnect" /\ e.from = sc.a
    THEN [sc EXCEPT !.step = 5]
    ELSE [step |-> -1, a |-> Null, b |-> Null]

\* the event a step handles, and the registry the handler finds
Event(name, s) ==
    [name |-> name, from |-> s, host |-> hostSocketId, viewers |-> viewers,
     displaced |-> hist.displaced]

\* the displaced hosts: once a run keeps track of them, displaced holds the
\* connected sockets that were the host when another socket registered and
\* have not registered again since
HistAfter(h, e) ==
    IF ~h.track THEN h
    ELSE IF e.name = "register-host" /\ e.host # e.from
    THEN [h EXCEPT !.displaced = (@ \ {e.from}) \cup ({e.host} \ {Null})]
    ELSE IF e.name = "disconnect"
    THEN [h EXCEPT !.displaced = @ \ {e.from}]
    ELSE h

\* what every step records besides the handler's own effect
Record(e, out) ==
    /\ ev' = e
    /\ sent' = out
    /\ lastStats' = LastStatsAfter(lastStats, out)
    /\ joined' = JoinedAfter(joined, e)
    /\ scenario' = ScenarioAfter(scenario, e)
    /\ hist' = HistAfter(hist, e)

\* ------------------------------------------------------------ the pages
\* createPeer calls per viewer: -1 for a viewer that was not in ViewerSet when
\* the audio was started
NoPeers == [v \in SocketIds |-> -1]

\* no page is open and nothing is in flight
NoPages ==
    [kind       |-> [s \in SocketIds |-> "none"],   \* "host" | "listener" page
     online     |-> [s \in SocketIds |-> FALSE],    \* the page's socket is connected, as the page sees it
     was        |-> [s \in SocketIds |-> {}],       \* the ids the page's socket had before (history)
     outbox     |-> [s \in SocketIds |-> <<>>],     \* socket.emit calls not yet handled
     inbox      |-> [s \in SocketIds |-> <<>>],     \* messages not yet handled by the page
     audioTrack |-> [s \in SocketIds |-> FALSE],    \* host page: let audioTrack
     pending    |-> [s \in SocketIds |-> <<>>],     \* host page: pendingViewers
     peers      |-> [s \in SocketIds |-> {}],       \* host page: keys of peers
     enabled    |-> [s \in SocketIds |-> FALSE],    \* listener: enableBtn is hidden
     got        |-> [s \in SocketIds |-> {}],       \* hostIds of the offers received (history)
     wait       |-> [s \in SocketIds |-> "none"],   \* why a viewer awaits an offer (history)
     pc         |-> [s \in SocketIds |-> FALSE],    \* listener: let pc is not null
     sig        |-> [s \in SocketIds |-> "stable"], \* listener: pc.signalingState
     chain      |-> [s \in SocketIds |-> <<>>],     \* listener: the operations pc has queued, in call order
     heard      |-> [s \in SocketIds |-> FALSE],    \* listener: pc.ontrack has run for pc
     tasks      |-> [s \in SocketIds |-> EmptyBag], \* listener: webrtc-offer handlers at an await
     threw      |-> [s \in SocketIds |-> FALSE],    \* listener: a handler stopped with an error (history)
     made       |-> [s \in SocketIds |-> NoPeers],  \* host page: createPeer calls since the start (history)
     streaming  |-> [s \in SocketIds |-> FALSE],    \* host page: let isStreaming, the Stop button is shown
     jobs       |-> [s \in SocketIds |-> EmptyBag], \* host page: createPeer calls at an await or returned, their connection open
     picking    |-> [s \in SocketIds |-> 0],        \* host page: startAudio calls at await getDisplayMedia
     mediaStream |-> [s \in SocketIds |-> 0],       \* host page: let mediaStream, the number of a capture or 0 for null
     streams    |-> [s \in SocketIds |-> <<>>],     \* host page: the captures getDisplayMedia has given, in order
     ended      |-> [s \in SocketIds |-> 0],        \* host page: onended callbacks of an ended capture still to run
     hostIdRef  |-> [s \in SocketIds |-> Null],     \* listener: let hostIdRef
     up         |-> [s \in SocketIds |-> FALSE],    \* listener: pc has its local description
     asking     |-> [s \in SocketIds |-> EmptyBag], \* listener: updateStatsLoop calls at await pc.getStats()
     timers     |-> [s \in SocketIds |-> 0],        \* listener: setTimeout(updateStatsLoop, 1000) pending
     prevBytes  |-> [s \in SocketIds |-> 0],        \* listener: updateStatsLoop._prevBytes || 0
     script     |-> "either",                       \* the host script the host pages run, once a stop has shown which
     clicks     |-> 0,                              \* clicks so far
     closes     |-> 0,                              \* pages closed so far
     faults     |-> 0,                              \* connections and captures lost so far
     signals    |-> 0,                              \* candidates emitted and rounds of the report so far
     limit      |-> [clicks |-> MaxClicks,          \* what the users may do in a run, what users,
                     events |-> MaxEvents,          \* network and browser may do in all, and
                     sockets |-> PageSockets]]      \* the sockets the pages may open

\* ----------------------------------------------------------------- Init
InitServer ==
    /\ variant \in {"server_js", "part_004"}
    /\ nextId = 1
    /\ connected = {}
    /\ hostSocketId = Null
    /\ viewers = <<>>
    /\ viewerStats = <<>>
    /\ now = 0
    /\ ev = [name |-> "init", from |-> Null, host |-> Null, viewers |-> <<>>,
             displaced |-> {}]
    /\ sent = <<>>
    /\ lastStats = NoStats
    /\ joined = [s \in SocketIds |-> "none"]
    /\ sessions = <<>>
    /\ nextSweep = SESSION_CLEANUP_INTERVAL
    /\ advances = 0
    /\ scenario = [step |-> 0, a |-> Null, b |-> Null]

\* the server is up and no page is open
InitRegistry == InitServer /\ page = NoPages

\* the state after construction, in a run that does not keep track of the
\* displaced hosts
Init == InitRegistry /\ hist = [track |-> FALSE, displaced |-> {}]

\* Date.now() advances
Tick ==
    /\ now < MaxTime
    /\ now' = now + 1
    /\ Record(Event("tick", Null), <<>>)
    /\ UNCHANGED <<variant, page, sessions, nextSweep, advances, nextId, connected, hostSocketId, viewers, viewerStats>>

\* io.on('connection'): the transport assigns a fresh socket.id
Connect ==
    /\ nextId <= NumSockets
    /\ connected' = connected \cup {nextId}
    /\ nextId' = nextId + 1
    /\ Record(Event("connection", nextId), <<>>)
    /\ UNCHANGED <<variant, page, sessions, nextSweep, advances, hostSocketId, viewers, viewerStats, now>>

\* RegisterHost with a fault: registering evicts the viewers
RegisterHostEvicts(s) ==
    /\ s \in connected
    /\ hostSocketId' = s
    /\ viewers' = <<>>
    /\ Record(Event("register-host", s),
              BroadcastStats(EmitTo(EmitToEachViewer(<<>>, viewers, 1, "host-left"),
                                    s, "host-confirmed", NoData),
                             hostSocketId', viewers'))
    /\ UNCHANGED <<variant, page, sessions, nextSweep, advances, nextId, connected, viewerStats, now>>

\* io.on('connection') in a run that opens RelaySockets connections
ConnectRelay ==
    /\ nextId <= RelaySockets
    /\ connected' = connected \cup {nextId}
    /\ nextId' = nextId + 1
    /\ Record(Event("connection", nextId), <<>>)
    /\ UNCHANGED <<variant, page, sessions, nextSweep, advances, hostSocketId, viewers,
                   viewerStats, now>>

\* RegisterHost with a fault: the displaced host is told that it was replaced
RegisterHostTellsDisplaced(s) ==
    /\ s \in connected
    /\ hostSocketId' = s
    /\ Record(Event("register-host", s),
              BroadcastStats(EmitTo(EmitTo(<<>>, hostSocketId, "host-replaced", NoData),
                                    s, "host-confirmed", NoData),
                             hostSocketId', viewers))
    /\ UNCHANGED <<variant, page, sessions, nextSweep, advances, nextId, connected, viewers,
                   viewerStats, now>>

\* io.on('connection') in a run next to the session store
ConnectStore ==
    /\ nextId <= StoreSockets
    /\ connected' = connected \cup {nextId}
    /\ nextId' = nextId + 1
    /\ Record(Event("connection", nextId), <<>>)
    /\ UNCHANGED <<variant, page, sessions, nextSweep, advances, hostSocketId, viewers, viewerStats, now>>

\* socket.on('register-host')
OnRegisterHost(s) ==
    /\ s \in connected
    /\ hostSocketId' = s
    /\ Record(Event("register-host", s),
              BroadcastStats(EmitTo(<<>>, s, "host-confirmed", NoData),
                             hostSocketId', viewers))
    /\ UNCHANGED <<variant, sessions, nextSweep, advances, nextId, connected, viewers, viewerStats, now>>

\* the handler while the pages and the transport stand still
RegisterHost(s) == OnRegisterHost(s) /\ UNCHANGED page

\* socket.on('announce-streaming')
OnAnnounceStreaming(s) ==
    /\ s \in connected
    /\ Record(Event("announce-streaming", s),
              IF s # hostSocketId THEN <<>>
              ELSE EmitAll(EmitViewerJoinedEach(<<>>, viewers, 1, hostSocketId),
                           "host-streaming", NoData))
    /\ UNCHANGED <<variant, sessions, nextSweep, advances, nextId, connected, hostSocketId, viewers, viewerStats, now>>

\* the handler while the pages and the transport stand still
AnnounceStreaming(s) == OnAnnounceStreaming(s) /\ UNCHANGED page

\* HostStoppedStreaming with a fault: the sender is not compared with the host
HostStoppedStreamingUnguarded(s) ==
    /\ s \in connected
    /\ Record(Event("host-stopped-streaming", s),
              EmitToEachViewer(<<>>, viewers, 1, "host-stopped"))
    /\ UNCHANGED <<variant, page, sessions, nextSweep, advances, nextId, connected,
                   hostSocketId, viewers, viewerStats, now>>

\* socket.on('host-stopped-streaming')
OnHostStoppedStreaming(s) ==
    /\ s \in connected
    /\ Record(Event("host-stopped-streaming", s),
              IF s # hostSocketId THEN <<>>
              ELSE EmitToEachViewer(<<>>, viewers, 1, "host-stopped"))
    /\ UNCHANGED <<variant, sessions, nextSweep, advances, nextId, connected, hostSocketId, viewers, viewerStats, now>>

\* the handler while the pages and the transport stand still
HostStoppedStreaming(s) == OnHostStoppedStreaming(s) /\ UNCHANGED page

\* ViewerJoin with a fault: the join does not look for a host
ViewerJoinUnguarded(s) ==
    /\ s \in connected
    /\ viewers' = MapSet(viewers, s, now)
    /\ Record(Event("viewer-join", s),
              BroadcastStats(EmitTo(<<>>, hostSocketId, "viewer-joined", [viewerId |-> s]),
                             hostSocketId, viewers'))
    /\ UNCHANGED <<variant, page, sessions, nextSweep, advances, nextId, connected, hostSocketId, viewerStats, now>>

\* socket.on('viewer-join')
OnViewerJoin(s) ==
    /\ s \in connected
    /\ IF hostSocketId = Null
       THEN /\ Record(Event("viewer-join", s), EmitTo(<<>>, s, "no-host", NoData))
            /\ UNCHANGED viewers
       ELSE /\ viewers' = MapSet(viewers, s, now)
            /\ Record(Event("viewer-join", s),
                      BroadcastStats(EmitTo(<<>>, hostSocketId, "viewer-joined",
                                            [viewerId |-> s]),
                                     hostSocketId, viewers'))
    /\ UNCHANGED <<variant, sessions, nextSweep, advances, nextId, connected, hostSocketId, viewerStats, now>>

\* the handler while the pages and the transport stand still
ViewerJoin(s) == OnViewerJoin(s) /\ UNCHANGED page

\* the relays record their arguments with the event
RelayEvent(name, s, target, x) ==
    [name |-> name, from |-> s, host |-> hostSocketId, viewers |-> viewers,
     target |-> target, sdp |-> x]

\* WebrtcOffer with a fault: a target that is not connected is reported to the sender
WebrtcOfferReportsBack(s, viewerId, sdp) ==
    /\ s \in connected
    /\ Record(RelayEvent("webrtc-offer", s, viewerId, sdp),
              IF viewerId \in connected
              THEN EmitTo(<<>>, viewerId, "webrtc-offer", [sdp |-> sdp, hostId |-> s])
              ELSE EmitTo(<<>>, s, "relay-error", NoData))
    /\ UNCHANGED <<variant, page, sessions, nextSweep, advances, nextId, connected,
                   hostSocketId, viewers, viewerStats, now>>

\* socket.on('webrtc-offer', ({ viewerId, sdp }) => ...)
OnWebrtcOffer(s, viewerId, sdp) ==
    /\ s \in connected
    /\ Record(RelayEvent("webrtc-offer", s, viewerId, sdp),
              EmitTo(<<>>, viewerId, "webrtc-offer", [sdp |-> sdp, hostId |-> s]))
    /\ UNCHANGED <<variant, sessions, nextSweep, advances, nextId, connected, hostSocketId, viewers, viewerStats, now>>

\* the handler while the pages and the transport stand still
WebrtcOffer(s, viewerId, sdp) == OnWebrtcOffer(s, viewerId, sdp) /\ UNCHANGED page

\* WebrtcAnswer with a fault: the sender of an answer is taken for a viewer
WebrtcAnswerJoins(s, hostId, sdp) ==
    /\ s \in connected
    /\ viewers' = MapSet(viewers, s, now)
    /\ Record(RelayEvent("webrtc-answer", s, hostId, sdp),
              BroadcastStats(EmitTo(<<>>, hostId, "webrtc-answer",
                                    [sdp |-> sdp, viewerId |-> s]),
                             hostSocketId, viewers'))
    /\ UNCHANGED <<variant, page, sessions, nextSweep, advances, nextId, connected,
                   hostSocketId, viewerStats, now>>

\* socket.on('webrtc-answer', ({ hostId, sdp }) => ...)
OnWebrtcAnswer(s, hostId, sdp) ==
    /\ s \in connected
    /\ Record(RelayEvent("webrtc-answer", s, hostId, sdp),
              EmitTo(<<>>, hostId, "webrtc-answer", [sdp |-> sdp, viewerId |-> s]))
    /\ UNCHANGED <<variant, sessions, nextSweep, advances, nextId, connected, hostSocketId, viewers, viewerStats, now>>

\* the handler while the pages and the transport stand still
WebrtcAnswer(s, hostId, sdp) == OnWebrtcAnswer(s, hostId, sdp) /\ UNCHANGED page

\* WebrtcIceCandidate with a fault: the candidate is tagged with its target
WebrtcIceCandidateTagsTarget(s, targetId, candidate) ==
    /\ s \in connected
    /\ Record(RelayEvent("webrtc-ice-candidate", s, targetId, candidate),
              IF targetId # Null
              THEN EmitTo(<<>>, targetId, "webrtc-ice-candidate",
                          [candidate |-> candidate, from |-> targetId])
              ELSE <<>>)
    /\ UNCHANGED <<variant, page, sessions, nextSweep, advances, nextId, connected,
                   hostSocketId, viewers, viewerStats, now>>

\* socket.on('webrtc-ice-candidate', ({ targetId, candidate }) => ...)
OnWebrtcIceCandidate(s, targetId, candidate) ==
    /\ s \in connected
    /\ Record(RelayEvent("webrtc-ice-candidate", s, targetId, candidate),
              IF targetId # Null
              THEN EmitTo(<<>>, targetId, "webrtc-ice-candidate",
                          [candidate |-> candidate, from |-> s])
              ELSE <<>>)
    /\ UNCHANGED <<variant, sessions, nextSweep, advances, nextId, connected, hostSocketId, viewers, viewerStats, now>>

\* the handler while the pages and the transport stand still
WebrtcIceCandidate(s, targetId, candidate) ==
    OnWebrtcIceCandidate(s, targetId, candidate) /\ UNCHANGED page

\* { ...payload, timestamp: Date.now() }
WithTimestamp(payload, t) ==
    [f \in (DOMAIN payload) \cup {"timestamp"} |->
        IF f = "timestamp" THEN t ELSE payload[f]]

\* { viewerId: socket.id, ...payload }: a field of the payload wins
WithViewerId(id, payload) ==
    [f \in {"viewerId"} \cup (DOMAIN payload) |->
        IF f \in DOMAIN payload THEN payload[f] ELSE id]

\* a listener-stats event with its payload and the reports it found
StatsEvent(s, payload) ==
    [name |-> "listener-stats", from |-> s, host |-> hostSocketId, viewers |-> viewers,
     payload |-> payload, stats |-> viewerStats]

\* socket.on('listener-stats', (payload) => ...)
OnListenerStats(s, payload) ==
    /\ s \in connected
    /\ IF hostSocketId = Null
       THEN /\ Record(StatsEvent(s, payload), <<>>)
            /\ UNCHANGED viewerStats
       ELSE /\ viewerStats' = StatsSet(viewerStats, s, WithTimestamp(payload, now))
            /\ Record(StatsEvent(s, payload),
                      EmitTo(<<>>, hostSocketId, "listener-stats", WithViewerId(s, payload)))
    /\ UNCHANGED <<variant, sessions, nextSweep, advances, nextId, connected, hostSocketId, viewers, now>>

\* the handler while the pages and the transport stand still
ListenerStats(s, payload) == OnListenerStats(s, payload) /\ UNCHANGED page

\* DisconnectViewer with a fault: the server drops the viewer itself
DisconnectViewerRemoves(s, viewerId) ==
    /\ s \in connected
    /\ viewers' = MapDelete(viewers, viewerId)
    /\ Record(RelayEvent("disconnect-viewer", s, viewerId, "-"),
              IF Has(viewers, viewerId)
              THEN EmitTo(<<>>, viewerId, "disconnect-request", NoData)
              ELSE <<>>)
    /\ UNCHANGED <<variant, page, sessions, nextSweep, advances, nextId, connected,
                   hostSocketId, viewerStats, now>>

\* socket.on('disconnect-viewer', ({ viewerId }) => ...)
DisconnectViewer(s, viewerId) ==
    /\ s \in connected
    /\ Record(RelayEvent("disconnect-viewer", s, viewerId, "-"),
              IF Has(viewers, viewerId)
              THEN EmitTo(<<>>, viewerId, "disconnect-request", NoData)
              ELSE <<>>)
    /\ UNCHANGED <<variant, page, sessions, nextSweep, advances, nextId, connected, hostSocketId, viewers, viewerStats, now>>

\* the disconnect of a socket that is neither host nor viewer: part_004 calls
\* broadcastStats() after its if / else if, the server of server.js only inside
\* the two branches
UntrackedBroadcasts(v) == v = "part_004"

\* socket.on('disconnect'): the socket has left its rooms before the handler runs
OnDisconnect(s) ==
    /\ s \in connected
    /\ connected' = connected \ {s}
    /\ IF s = hostSocketId
       THEN /\ hostSocketId' = Null
            /\ viewers' = <<>>
            /\ viewerStats' = <<>>
            /\ Record(Event("disconnect", s),
                      BroadcastStats(EmitToEachViewer(<<>>, viewers, 1, "host-left"),
                                     hostSocketId', viewers'))
       ELSE IF Has(viewers, s)
       THEN /\ viewers' = MapDelete(viewers, s)
            /\ viewerStats' = StatsDelete(viewerStats, s)
            /\ Record(Event("disconnect", s),
                      BroadcastStats(IF hostSocketId # Null
                                     THEN EmitTo(<<>>, hostSocketId, "viewer-left",
                                                 [viewerId |-> s])
                                     ELSE <<>>,
                                     hostSocketId, viewers'))
            /\ UNCHANGED hostSocketId
       ELSE /\ Record(Event("disconnect", s),
                      IF UntrackedBroadcasts(variant)
                      THEN BroadcastStats(<<>>, hostSocketId, viewers)
                      ELSE <<>>)
            /\ UNCHANGED <<hostSocketId, viewers, viewerStats>>
    /\ UNCHANGED <<variant, sessions, nextSweep, advances, nextId, now>>

\* the handler while the pages and the transport stand still
Disconnect(s) == OnDisconnect(s) /\ UNCHANGED page

\* ------------------------------------------------------- specifications
\* the handlers that read or write the registry (host, viewers); Date.now()
\* stands still here and advances under SpecClock
Lifecycle ==
    \/ Connect
    \/ \E s \in SocketIds : RegisterHost(s)
    \/ \E s \in SocketIds : AnnounceStreaming(s)
    \/ \E s \in SocketIds : HostStoppedStreaming(s)
    \/ \E s \in SocketIds : ViewerJoin(s)
    \/ \E s \in SocketIds : Disconnect(s)

\* the stateless relays
Relay ==
    \/ \E s \in SocketIds, t \in TargetIds, x \in Sdps : WebrtcOffer(s, t, x)
    \/ \E s \in SocketIds, t \in TargetIds, x \in Sdps : WebrtcAnswer(s, t, x)
    \/ \E s \in SocketIds, t \in TargetIds, x \in Sdps : WebrtcIceCandidate(s, t, x)
    \/ \E s \in SocketIds, t \in TargetIds : DisconnectViewer(s, t)

\* the quality reports
Quality == \E s \in SocketIds, p \in Reports : ListenerStats(s, p)

Next == Lifecycle

Spec == Init /\ [][Next]_vars

\* the registry handlers over the connections of a run with relays; the ids
\* above RelaySockets are ids of no connection
LifecycleRelay ==
    \/ ConnectRelay
    \/ \E s \in SocketIds : RegisterHost(s)
    \/ \E s \in SocketIds : AnnounceStreaming(s)
    \/ \E s \in SocketIds : HostStoppedStreaming(s)
    \/ \E s \in SocketIds : ViewerJoin(s)
    \/ \E s \in SocketIds : Disconnect(s)

NextRelay == LifecycleRelay \/ Relay

SpecRelay == Init /\ [][NextRelay]_vars

NextStats == Lifecycle \/ Quality

SpecStats == Init /\ [][NextStats]_vars

\* the quality reports over the connections of a run with relays
NextQuality == LifecycleRelay \/ Quality

SpecQuality == Init /\ [][NextQuality]_vars

\* the registry under a clock that advances between events
NextClock == Lifecycle \/ Tick

SpecClock == Init /\ [][NextClock]_vars

\* the registry in a run that keeps track of the displaced hosts
InitHist == InitRegistry /\ hist = [track |-> TRUE, displaced |-> {}]

SpecHist == InitHist /\ [][Next]_vars

\* the clock over the connections of a run with relays
NextClockRelay == LifecycleRelay \/ Tick

SpecClockRelay == Init /\ [][NextClockRelay]_vars

\* ------------------------------------------- session store and access gate
\* session ids a client may present; NoToken is an absent (or empty) value
Tokens == {"t1", "t2"}
NoToken == ""
Roles == {"host", "viewer"}

\* req.ip, req.hostname of the requests considered
Ips == {"127.0.0.1", "::1", "::ffff:127.0.0.1", "192.168.1.5"}
Hostnames == {"localhost", "192.168.1.5"}

\* GET / with req.ip, req.hostname, req.query.session, req.headers['x-session-id'];
\* the header carries the first token or none
Requests ==
    [ip : Ips, hostname : Hostnames,
     query : Tokens \cup {NoToken}, header : {"t1", NoToken}]

\* how far Date.now() moves between two events of the server: a millisecond,
\* a timer period, the maximum age of a session
Durations == {1, SESSION_CLEANUP_INTERVAL, SESSION_MAX_AGE}

\* const isLocalhost = (req) => ...
IsLocalhost(req) ==
    \/ req.ip = "127.0.0.1"
    \/ req.ip = "::1"
    \/ req.ip = "::ffff:127.0.0.1"
    \/ req.hostname = "localhost"

\* req.query.session || req.headers['x-session-id']
SessionId(req) == IF req.query # NoToken THEN req.query ELSE req.header

\* sessions.get(sessionId)?.role
SessionRole(ss, id) ==
    IF \E i \in 1..Len(ss) : ss[i].id = id
    THEN (CHOOSE e \in {ss[i] : i \in 1..Len(ss)} : e.id = id).role
    ELSE "undefined"

\* RequireHostAccess with a fault: any session is accepted, whatever its role
RequireHostAccessAnyRole(req, ss) ==
    IF IsLocalhost(req) THEN "next"
    ELSE IF SessionId(req) # NoToken /\ SessionRole(ss, SessionId(req)) # "undefined"
         THEN "next"
         ELSE "redirect"

\* const requireHostAccess = (req, res, next) => ...
RequireHostAccess(req, ss) ==
    IF IsLocalhost(req) THEN "next"
    ELSE IF SessionId(req) # NoToken /\ SessionRole(ss, SessionId(req)) = "host"
         THEN "next"
         ELSE "redirect"

\* SessionSweep with a fault: a session is also removed at exactly the maximum age
SessionSweepAtMaxAge(ss, t) == SelectSeq(ss, LAMBDA e : ~(t - e.createdAt >= SESSION_MAX_AGE))

\* for (const [id, session] of sessions)
\*     if (now - session.createdAt > SESSION_MAX_AGE) sessions.delete(id)
SessionSweep(ss, t) == SelectSeq(ss, LAMBDA e : ~(t - e.createdAt > SESSION_MAX_AGE))

\* what a step of the session store or the gate records
GateEvent(name, req, res) ==
    [name |-> name, from |-> Null, host |-> hostSocketId, viewers |-> viewers,
     req |-> req, res |-> res, sessions |-> sessions]

\* a session is created outside the signaling flow with {sessionId, role, createdAt}
CreateSession(tok, role) ==
    /\ ~(\E i \in 1..Len(sessions) : sessions[i].id = tok)
    /\ sessions' = Append(sessions, [id |-> tok, role |-> role, createdAt |-> now])
    /\ Record(GateEvent("create-session", NoToken, "none"), <<>>)
    /\ UNCHANGED <<variant, page, nextId, connected, hostSocketId, viewers, viewerStats,
                   now, nextSweep, advances>>

\* Date.now() moves on by d between two events; the cleanup timer may be
\* overdue afterwards, its callback runs when the event loop gets to it
Elapse(d) ==
    /\ advances < MaxAdvances
    /\ now' = now + d
    /\ advances' = advances + 1
    /\ Record(GateEvent("elapse", NoToken, "none"), <<>>)
    /\ UNCHANGED <<variant, page, nextId, connected, hostSocketId, viewers, viewerStats,
                   sessions, nextSweep>>

\* setInterval(() => {...}, SESSION_CLEANUP_INTERVAL): one run of the callback,
\* at or after the time it is due; the timer is due again a period later
SessionCleanup ==
    /\ now >= nextSweep
    /\ sessions' = SessionSweep(sessions, now)
    /\ nextSweep' = now + SESSION_CLEANUP_INTERVAL
    /\ Record(GateEvent("session-cleanup", NoToken, "none"), <<>>)
    /\ UNCHANGED <<variant, page, nextId, connected, hostSocketId, viewers, viewerStats,
                   now, advances>>

\* app.get('/', requireHostAccess, ...)
Request(req) ==
    /\ Record(GateEvent("GET /", req, RequireHostAccess(req, sessions)), <<>>)
    /\ UNCHANGED <<variant, page, nextId, connected, hostSocketId, viewers, viewerStats,
                   now, sessions, nextSweep, advances>>

NextGate ==
    \/ \E tok \in Tokens, role \in Roles : CreateSession(tok, role)
    \/ \E d \in Durations : Elapse(d)
    \/ SessionCleanup
    \/ \E req \in Requests : Request(req)

SpecGate == Init /\ [][NextGate]_vars

\* the gate over a store that fills, with the clock standing still
NextAccess ==
    \/ \E tok \in Tokens, role \in Roles : CreateSession(tok, role)
    \/ \E req \in Requests : Request(req)

SpecAccess == Init /\ [][NextAccess]_vars

\* the session store next to a registry that fills: the cleanup timer runs
\* between the socket events, the clock moves by whole periods
NextStore ==
    \/ ConnectStore
    \/ \E s \in SocketIds : RegisterHost(s)
    \/ \E s \in SocketIds : ViewerJoin(s)
    \/ \E tok \in Tokens : CreateSession(tok, "host")
    \/ \E d \in Durations \ {1} : Elapse(d)
    \/ SessionCleanup

SpecStore == Init /\ [][NextStore]_vars

\* ------------------------------------------------- the pages at work
\* the events whose handler in a page does more than update the display or
\* the browser's peer connection
Relevant(kind, event) ==
    \/ kind = "host" /\ event \in {"viewer-joined", "viewer-left"}
    \/ kind = "listener" /\ event \in {"webrtc-offer", "host-streaming", "no-host",
                                        "host-left", "host-stopped"}

\* the emit calls of a server step reach the pages whose socket is up at both
\* ends; what the server sends to a socket whose page has lost it is lost
Transport(pg, out, conn) ==
    [pg EXCEPT !.inbox = [s \in SocketIds |->
        IF pg.online[s]
        THEN pg.inbox[s] \o SelectSeq(Delivered(out, conn, s),
                                      LAMBDA m : Relevant(pg.kind[s], m.event))
        ELSE pg.inbox[s]]]

\* socket.emit(name, {target, sdp}) of a page
Emit(name, target, x) == [name |-> name, target |-> target, sdp |-> x]

\* the next socket.emit of page s that the server has not handled; what a page
\* emits while its socket is down waits in the client's send buffer
Emitted(s, name) ==
    /\ page.online[s]
    /\ page.outbox[s] # <<>>
    /\ Head(page.outbox[s]).name = name

\* the server has handled the next emit of page s
Served(s) == [Transport(page, sent', connected') EXCEPT !.outbox[s] = Tail(@)]

\* the next message page s has not handled
Arrived(s, kind, event) ==
    /\ page.kind[s] = kind
    /\ page.inbox[s] # <<>>
    /\ Head(page.inbox[s]).event = event

\* a page handler leaves the server alone
ServerIdle ==
    UNCHANGED <<variant, nextId, connected, hostSocketId, viewers, viewerStats, now,
                ev, sent, lastStats, joined, sessions, nextSweep, advances, scenario,
                hist>>

\* a user action leaves the registry alone
RegistryIdle ==
    UNCHANGED <<variant, nextId, connected, hostSocketId, viewers, viewerStats, now,
                sessions, nextSweep, advances>>

\* the users, the network and the browser may do one thing more
Spare == page.clicks + page.closes + page.faults + page.signals < page.limit.events

\* the users may click once more
SpareClick == page.clicks < page.limit.clicks /\ Spare

\* the host page opens: initSocket() { socket = io(); socket.emit('register-host') }
ConnectHostPage ==
    /\ nextId <= page.limit.sockets
    /\ connected' = connected \cup {nextId}
    /\ nextId' = nextId + 1
    /\ Record(Event("connection", nextId), <<>>)
    /\ page' = [page EXCEPT !.kind[nextId] = "host",
                            !.online[nextId] = TRUE,
                            !.outbox[nextId] = <<Emit("register-host", Null, "-")>>]
    /\ UNCHANGED <<variant, sessions, nextSweep, advances, hostSocketId, viewers,
                   viewerStats, now>>

\* the listener page opens: initSocket() { socket = io(); ... }
ConnectListenerPage ==
    /\ nextId <= page.limit.sockets
    /\ connected' = connected \cup {nextId}
    /\ nextId' = nextId + 1
    /\ Record(Event("connection", nextId), <<>>)
    /\ page' = [page EXCEPT !.kind[nextId] = "listener", !.online[nextId] = TRUE]
    /\ UNCHANGED <<variant, sessions, nextSweep, advances, hostSocketId, viewers,
                   viewerStats, now>>

\* listener: joinStream(), bound to the Enable button while it is shown
JoinStream(s) ==
    /\ page.kind[s] = "listener"
    /\ ~page.enabled[s]
    /\ SpareClick
    /\ page' = [page EXCEPT !.enabled[s] = TRUE,
                            !.outbox[s] = Append(@, Emit("viewer-join", Null, "-")),
                            !.clicks = @ + 1]
    /\ Record(Event("join-stream", s), <<>>)
    /\ RegistryIdle

\* the calls in flight of a page are a bag: one more, one less
Plus(calls, c) == calls (+) SetToBag({c})
Minus(calls, c) == calls (-) SetToBag({c})

\* the calls of a bag that are in the set keep
Only(calls, keep) == [c \in BagToSet(calls) \cap keep |-> calls[c]]

\* the awaits of createPeer, in order
HostAwaits == <<"createOffer", "setLocalDescription">>

\* the position of a createPeer call that has emitted its offer and returned:
\* its connection stays open
Offered == Len(HostAwaits) + 1

\* host page h: createPeer(v) up to its first await, while the track is set:
\* peers.set(v, pc) takes the place of an older connection for v without
\* closing it. flush tells a call made by the loop of startAudio, seen the
\* queued ids that loop has visited, own the capture of that startAudio call.
CreatePeer(pg, h, v, flush, seen, own) ==
    LET Replaced(job) == IF job.viewer = v THEN [job EXCEPT !.mapped = FALSE] ELSE job
    IN  [pg EXCEPT !.peers[h] = @ \cup {v},
                   !.made[h][v] = IF @ < 0 THEN @ ELSE @ + 1,
                   !.jobs[h] = Plus(BagOfAll(Replaced, @),
                                    [viewer |-> v, at |-> 1, closed |-> FALSE,
                                     mapped |-> TRUE, flush |-> flush, seen |-> seen,
                                     own |-> own])]

\* pendingViewers.clear(): every loop over the Set starts over with what is
\* added later
Cleared(jobs) == LET Restarted(job) == [job EXCEPT !.seen = {}]
                 IN  BagOfAll(Restarted, jobs)

\* a capture of getDisplayMedia: its tracks are live, its video track and its
\* audio track may have an onended callback
Capture == [live |-> TRUE, video |-> FALSE, audio |-> FALSE]

\* a capture whose tracks were stopped or have ended: no callback will run
Stopped == [live |-> FALSE, video |-> FALSE, audio |-> FALSE]

\* mediaStream.getVideoTracks().forEach(t => t.onended = ...) for capture ms,
\* audioOnlyStream.getAudioTracks().forEach(t => t.onended = ...) for capture own
Wired(streams, ms, own) ==
    [i \in 1..Len(streams) |->
        IF ~streams[i].live THEN streams[i]
        ELSE [streams[i] EXCEPT !.video = @ \/ i = ms, !.audio = @ \/ i = own]]

\* host page h: startAudio() from its loop over pendingViewers on: the next
\* queued viewer gets a peer and the loop awaits it (without a track
\* createPeer returns at once); after the last one the queue is cleared, the
\* Stop button takes the place of the Start button, announce-streaming is
\* emitted and the tracks get their onended callbacks: the video tracks of
\* whatever mediaStream is by now, which throws into the catch when stopAudio
\* has set it to null, and the audio track of the call's own capture
Flush(pg, h, seen, own) ==
    LET rest == SelectSeq(pg.pending[h], LAMBDA id : id \notin seen)
        announced == [pg EXCEPT
                         !.pending[h] = <<>>,
                         !.jobs[h] = Cleared(@),
                         !.streaming[h] = TRUE,
                         !.outbox[h] = Append(@, Emit("announce-streaming", Null, "-"))]
    IN  IF rest # <<>> /\ pg.audioTrack[h]
        THEN CreatePeer(pg, h, Head(rest), TRUE, seen \cup {Head(rest)}, own)
        ELSE IF pg.mediaStream[h] = 0
        THEN announced
        ELSE [announced EXCEPT !.streams[h] = Wired(@, pg.mediaStream[h], own)]

\* host page: a click on the Start button while it is shown: startAudio() up
\* to await getDisplayMedia(...); the button stays until a call gets past its
\* loop, so it can be clicked again while the picker is open
ClickStart(h) ==
    /\ page.kind[h] = "host"
    /\ ~page.streaming[h]
    /\ SpareClick
    /\ page' = [page EXCEPT !.picking[h] = @ + 1, !.clicks = @ + 1]
    /\ ServerIdle

\* host page: getDisplayMedia resolves with an audio track for a startAudio
\* call that awaits it: mediaStream and the track are set, whatever they and
\* isStreaming are by now (an older capture stays live, with its callbacks),
\* and the function runs up to its next await or, with nobody queued, to its end
StartAudio(h) ==
    /\ page.kind[h] = "host"
    /\ page.picking[h] > 0
    /\ LET atAwait == {job \in BagToSet(page.jobs[h]) : job.at < Offered}
       IN  BagCardinality(Only(page.jobs[h], atAwait)) <= MaxOverlap
    /\ LET own == Len(page.streams[h]) + 1
       IN  page' = Flush([page EXCEPT
               !.picking[h] = @ - 1,
               !.streams[h] = Append(@, Capture),
               !.mediaStream[h] = own,
               !.audioTrack[h] = TRUE,
               !.made[h] = [v \in SocketIds |->
                               IF h = hostSocketId /\ Has(viewers, v) THEN 0 ELSE -1],
               !.got = [v \in SocketIds |->
                           IF h = hostSocketId /\ Has(viewers, v) THEN {} ELSE page.got[v]],
               !.wait = [v \in SocketIds |->
                           IF h = hostSocketId /\ Has(viewers, v) THEN "start" ELSE page.wait[v]]],
               h, {}, own)
    /\ Record(Event("start-audio", h), <<>>)
    /\ RegistryIdle

\* host page: getDisplayMedia resolves with a capture that has no audio track
\* (Share audio was not ticked): mediaStream is that capture by now, and
\* startAudio throws into its catch; track and buttons stay as they were
StartAudioNoTrack(h) ==
    /\ page.kind[h] = "host"
    /\ page.picking[h] > 0
    /\ page' = [page EXCEPT !.picking[h] = @ - 1,
                            !.streams[h] = Append(@, Capture),
                            !.mediaStream[h] = Len(page.streams[h]) + 1]
    /\ ServerIdle

\* host page: getDisplayMedia rejects (the user dismisses the picker):
\* startAudio ends in its catch
StartAudioDenied(h) ==
    /\ page.kind[h] = "host"
    /\ page.picking[h] > 0
    /\ page' = [page EXCEPT !.picking[h] = @ - 1]
    /\ ServerIdle

\* pc.close() of the connections that keep holds: a createPeer call at an
\* await is left with a promise of a closed connection, a connection whose
\* call has returned is gone; none of them is in peers any more
Closing(jobs, keep) ==
    LET Closed(job) == IF job \in keep
                       THEN [job EXCEPT !.closed = TRUE, !.mapped = FALSE] ELSE job
    IN  BagOfAll(Closed, Only(jobs, {job \in BagToSet(jobs) :
                                        job \notin keep \/ job.at < Offered}))

\* the scripts the host pages may run: the host script in public/listen.js or
\* public/script.js. The two differ in nothing but their stop, so that a run
\* shows which one it is when a host page first stops
Scripts(pg) == IF pg.script = "either" THEN {"listen_js", "script_js"} ELSE {pg.script}

\* host page h: stopAudio() of listen.js, stopAudioStreaming() of script.js:
\* the tracks of mediaStream are stopped, peers, track and queue are dropped;
\* the script of listen.js emits host-stopped-streaming, script.js emits nothing
StopAudioBody(pg, h, script) ==
    [pg EXCEPT
        !.script = script,
        !.streams[h] = IF pg.mediaStream[h] = 0 THEN @
                       ELSE [@ EXCEPT ![pg.mediaStream[h]] = Stopped],
        !.mediaStream[h] = 0,
        !.audioTrack[h] = FALSE,
        !.streaming[h] = FALSE,
        !.peers[h] = {},
        !.jobs[h] = Cleared(Closing(@, {job \in BagToSet(@) : job.mapped})),
        !.pending[h] = <<>>,
        !.made[h] = NoPeers,
        !.outbox[h] = IF script = "listen_js"
                      THEN Append(@, Emit("host-stopped-streaming", Null, "-"))
                      ELSE @]

\* host page: a click on the Stop button, which is shown while isStreaming
StopAudio(h) ==
    /\ page.kind[h] = "host"
    /\ page.streaming[h]
    /\ SpareClick
    /\ page' \in {StopAudioBody([page EXCEPT !.clicks = @ + 1], h, script) :
                    script \in Scripts(page)}
    /\ Record(Event("stop-audio", h), <<>>)
    /\ RegistryIdle

\* host page: capture i, which has an onended callback, ends (the user stops
\* the sharing in the browser's bar, the shared window closes): the callback
\* runs stopAudio() whatever isStreaming is. The tracks of a capture end one
\* after the other: stopAudio() stops the other track of mediaStream, whose
\* callback then never runs; the other callback of a capture that mediaStream
\* no longer holds runs stopAudio() once more.
TrackEnded(h, i) ==
    /\ page.kind[h] = "host"
    /\ i \in 1..Len(page.streams[h])
    /\ page.streams[h][i].live
    /\ page.streams[h][i].video \/ page.streams[h][i].audio
    /\ Spare
    /\ LET both == page.streams[h][i].video /\ page.streams[h][i].audio
           gone == [page EXCEPT
                       !.streams[h][i] = Stopped,
                       !.ended[h] = IF i # page.mediaStream[h] /\ both THEN @ + 1 ELSE @,
                       !.faults = @ + 1]
       IN  page' \in {StopAudioBody(gone, h, script) : script \in Scripts(page)}
    /\ Record(Event("stop-audio", h), <<>>)
    /\ RegistryIdle

\* host page: the second onended callback of an ended capture runs stopAudio()
OnEnded(h) ==
    /\ page.kind[h] = "host"
    /\ page.ended[h] > 0
    /\ page' \in {StopAudioBody([page EXCEPT !.ended[h] = @ - 1], h, script) :
                    script \in Scripts(page)}
    /\ Record(Event("stop-audio", h), <<>>)
    /\ RegistryIdle

\* pendingViewers.add(id): a Set keeps one entry per id, in insertion order
Queue(q, id) == IF \E i \in 1..Len(q) : q[i] = id THEN q ELSE Append(q, id)

\* host page: socket.on('viewer-joined', async ({ viewerId }) => ...)
HostOnViewerJoined(h) ==
    /\ Arrived(h, "host", "viewer-joined")
    /\ LET v == Head(page.inbox[h]).data.viewerId
       IN  page' = IF ~page.audioTrack[h]
                   THEN [page EXCEPT !.inbox[h] = Tail(@),
                                     !.pending[h] = Queue(@, v)]
                   ELSE CreatePeer([page EXCEPT !.inbox[h] = Tail(@)], h, v, FALSE, {}, 0)
    /\ ServerIdle

\* host page: socket.on('viewer-left', ({ viewerId }) => ...): the connection
\* that peers holds for the viewer is closed and deleted
HostOnViewerLeft(h) ==
    /\ Arrived(h, "host", "viewer-left")
    /\ LET v == Head(page.inbox[h]).data.viewerId
       IN  page' = [page EXCEPT
               !.inbox[h] = Tail(@),
               !.peers[h] = @ \ {v},
               !.jobs[h] = Closing(@, {job \in BagToSet(@) :
                                          job.viewer = v /\ job.mapped})]
    /\ ServerIdle

\* host page: the createPeer call job in flight goes on after its await: after
\* createOffer it awaits setLocalDescription, after that it emits the offer and
\* returns, to the loop of startAudio when that loop made the call
CreatePeerResumes(h, job) ==
    /\ page.kind[h] = "host"
    /\ BagIn(job, page.jobs[h])
    /\ job.at < Offered
    /\ ~job.closed
    /\ LET done == [job EXCEPT !.at = Offered, !.flush = FALSE, !.seen = {}, !.own = 0]
           offered == [page EXCEPT
                          !.jobs[h] = Plus(Minus(@, job), done),
                          !.outbox[h] = Append(@, Emit("webrtc-offer", job.viewer, "X"))]
       IN  page' = IF job.at < Len(HostAwaits)
                   THEN [page EXCEPT
                            !.jobs[h] = Plus(Minus(@, job), [job EXCEPT !.at = @ + 1])]
                   ELSE IF job.flush
                        THEN Flush(offered, h, job.seen, job.own)
                        ELSE offered
    /\ ServerIdle

\* host page: the connection of the createPeer call job in flight was closed
\* while the call awaited one of its promises: the promise rejects or never
\* settles, the call emits no offer, and a startAudio that awaited the call
\* ends in its catch or never goes on: no announce-streaming, the queue stays
CreatePeerStops(h, job) ==
    /\ page.kind[h] = "host"
    /\ BagIn(job, page.jobs[h])
    /\ job.closed
    /\ page' = [page EXCEPT !.jobs[h] = Minus(@, job)]
    /\ ServerIdle

\* host page: pc.onconnectionstatechange of the connection of job, with
\* connectionState failed or disconnected: pc.close(); peers.delete(viewerId),
\* whichever connection peers holds for the viewer by now. After pc.close()
\* connectionState is closed, so the retry of the callback is never scheduled.
\* The browser leaves connectionState at new until both descriptions are set,
\* so the callback runs only for a connection whose offer has been emitted.
HostPeerState(h, job) ==
    /\ page.kind[h] = "host"
    /\ BagIn(job, page.jobs[h])
    /\ job.at = Offered
    /\ Spare
    /\ LET Deleted(other) == IF other.viewer = job.viewer
                             THEN [other EXCEPT !.mapped = FALSE] ELSE other
       IN  page' = [page EXCEPT
               !.peers[h] = @ \ {job.viewer},
               !.jobs[h] = BagOfAll(Deleted, Minus(@, job)),
               !.faults = @ + 1]
    /\ ServerIdle

\* host page: pc.onicecandidate of the connection of job, which gathers
\* candidates once its local description is set
HostIceCandidate(h, job) ==
    /\ page.kind[h] = "host"
    /\ BagIn(job, page.jobs[h])
    /\ job.at = Offered
    /\ Spare
    /\ page' = [page EXCEPT
           !.outbox[h] = Append(@, Emit("webrtc-ice-candidate", job.viewer, "X")),
           !.signals = @ + 1]
    /\ ServerIdle

\* the awaits of the webrtc-offer handler, in order
Awaits == <<"ensurePeer", "setRemoteDescription", "createAnswer", "setLocalDescription">>

\* what pc.getStats() may hold, times in microseconds: nothing yet; the audio
\* that arrives, the candidate pair in use and the sender's report, with a
\* jitter of 0.15 ms and a loss of 0.15 %, which the doubles of the page hold
\* as a little less and show as 0.1
StatsSamples ==
    {[remote |-> FALSE, jitter |-> 0, packetsLost |-> 0,
      inbound |-> FALSE, packetsReceived |-> 0, bytesReceived |-> 0,
      pair |-> FALSE, currentRoundTripTime |-> 0],
     [remote |-> TRUE, jitter |-> 150, packetsLost |-> 3,
      inbound |-> TRUE, packetsReceived |-> 1997, bytesReceived |-> 12500,
      pair |-> TRUE, currentRoundTripTime |-> 50000]}

\* now - prevTime in milliseconds: prevTime is the time of the round before
\* or, in the first round, performance.now() of two lines before
DeltaTimes == {0, 1000}

\* the numbers of the pages are IEEE 754 doubles: 53 significant bits, and a
\* division or a multiplication gives the double nearest to its exact result,
\* of two the one with the even significand. A significand is a sequence of
\* limbs of ten bits, the lowest first and the highest not 0; a double is
\* [neg, m, e] and stands for m * 2^e, negated if neg. What follows is exact
\* for doubles below 2^20 in size that come from integers and divisors below
\* 2^20, which covers what getStats and performance.now hand to the page.

\* x * n + carry for limbs x and natural numbers n > 0 and carry; without
\* limbs, the limbs of carry
RECURSIVE MulBy(_, _, _)
MulBy(x, n, carry) ==
    IF x = <<>> /\ carry = 0 THEN <<>>
    ELSE LET t == (IF x = <<>> THEN 0 ELSE Head(x) * n) + carry
         IN  <<t % 1024>> \o MulBy(IF x = <<>> THEN <<>> ELSE Tail(x), n, t \div 1024)

\* limbs x divided by natural number n > 0: the quotient and the remainder
RECURSIVE DivBy(_, _)
DivBy(x, n) ==
    IF x = <<>> THEN [quot |-> <<>>, rem |-> 0]
    ELSE LET up == DivBy(Tail(x), n)
             t == up.rem * 1024 + Head(x)
         IN  [quot |-> IF up.quot = <<>> /\ t < n THEN <<>> ELSE <<t \div n>> \o up.quot,
              rem |-> t % n]

\* x / n rounded to the nearest natural number, a tie to the even one
RoundDiv(x, n) ==
    LET d == DivBy(x, n)
        odd == d.quot # <<>> /\ Head(d.quot) % 2 = 1
    IN  IF 2 * d.rem > n \/ (2 * d.rem = n /\ odd) THEN MulBy(d.quot, 1, 1) ELSE d.quot

\* num / den for integers num and den > 0, as in deltaBytes * 8 / deltaTime:
\* the double nearest to the quotient. Quotient(us, 1000000) is the double a
\* report holds for a time of us microseconds, which it gives in seconds
Quotient(num, den) ==
    LET abs == IF num < 0 THEN 0 - num ELSE num
        \* the largest p with 2^p <= a / b
        RECURSIVE Exponent(_, _)
        Exponent(a, b) == IF a >= 2 * b THEN Exponent(a, 2 * b) + 1
                          ELSE IF a < b THEN Exponent(2 * a, b) - 1
                          ELSE 0
        \* x * 2^s
        RECURSIVE Shl(_, _)
        Shl(x, s) == IF s >= 10 THEN <<0>> \o Shl(x, s - 10) ELSE MulBy(x, 2^s, 0)
        shift == 52 - Exponent(abs, den)
    IN  IF num = 0 THEN [neg |-> FALSE, m |-> <<>>, e |-> 0]
        ELSE [neg |-> num < 0,
              m |-> RoundDiv(Shl(MulBy(<<>>, 1, abs), shift), den),
              e |-> 0 - shift]

\* d * n for a double d and an integer 0 < n < 1024, as in r.jitter * 1000:
\* the exact product, rounded if it has more than 53 bits
Times(d, n) ==
    LET product == MulBy(d.m, n, 0)
        RECURSIVE BitsOf(_)
        BitsOf(k) == IF k = 0 THEN 0 ELSE 1 + BitsOf(k \div 2)
        bits == IF product = <<>> THEN 0
                ELSE 10 * (Len(product) - 1) + BitsOf(product[Len(product)])
        drop == bits - 53
    IN  IF drop <= 0 THEN [d EXCEPT !.m = product]
        ELSE [d EXCEPT !.m = RoundDiv(product, 2^drop), !.e = @ + drop]

\* d.toFixed(digits) for a double d and digits 0 or 1: the digits of the
\* integer n for which n / 10^digits is nearest to the exact value of d, the
\* larger n of two, after the sign of a negative d
ToFixed(d, digits) ==
    LET \* x \div 2^s
        RECURSIVE Shr(_, _)
        Shr(x, s) == IF x = <<>> THEN <<>>
                     ELSE IF s >= 10 THEN Shr(Tail(x), s - 10)
                     ELSE DivBy(x, 2^s).quot
        \* the natural number of limbs x
        RECURSIVE Small(_)
        Small(x) == IF x = <<>> THEN 0 ELSE Head(x) + 1024 * Small(Tail(x))
        scaled == MulBy(d.m, IF digits = 0 THEN 1 ELSE 10, 0)
        n == (Small(Shr(scaled, 0 - d.e - 1)) + 1) \div 2
        sign == IF d.neg THEN "-" ELSE ""
    IN  IF digits = 0 THEN sign \o ToString(n)
        ELSE sign \o ToString(n \div 10) \o "." \o ToString(n % 10)

\* the payload updateStatsLoop computes from the reports of pc.getStats(),
\* whose times are doubles in seconds, and from the bytes and the time in
\* milliseconds since the round before
QualityReport(stats, prevBytes, deltaTime) ==
    LET packetsLost == IF stats.remote THEN stats.packetsLost ELSE 0
        packetsRecv == IF stats.inbound THEN stats.packetsReceived ELSE 0
        seconds(us) == Quotient(us, 1000000)
    IN  [rttMs |-> IF stats.pair
                   THEN ToFixed(Times(seconds(stats.currentRoundTripTime), 1000), 0)
                   ELSE "-",
         jitterMs |-> IF stats.remote /\ stats.jitter # 0
                      THEN ToFixed(Times(seconds(stats.jitter), 1000), 1) ELSE "-",
         bitrateKbps |-> IF stats.inbound /\ deltaTime > 0
                         THEN ToFixed(Quotient((stats.bytesReceived - prevBytes) * 8,
                                               deltaTime), 1)
                         ELSE "-",
         fractionLoss |-> IF packetsRecv > 0
                          THEN ToFixed(Times(Quotient(packetsLost, packetsLost + packetsRecv),
                                             100), 1) \o "%"
                          ELSE "-",
         packetsLost |-> packetsLost,
         packetsRecv |-> packetsRecv]

\* listener: teardown(): pc is closed and set to null and the Enable button
\* is shown again; the calls that await a promise of pc (every await of the
\* offer handler but the one on ensurePeer(), and pc.getStats()) are left
\* with a promise of a closed connection
Teardown(pg, s) ==
    LET Closed(call) == [call EXCEPT !.closed = TRUE]
        ClosedTask(task) == IF task.at > 1 THEN Closed(task) ELSE task
    IN  [pg EXCEPT !.enabled[s] = FALSE,
                   !.pc[s] = FALSE,
                   !.up[s] = FALSE,
                   !.sig[s] = "stable",
                   !.chain[s] = <<>>,
                   !.heard[s] = FALSE,
                   !.tasks[s] = BagOfAll(ClosedTask, @),
                   !.asking[s] = BagOfAll(Closed, @)]

\* listener: socket.on('webrtc-offer', async ({ sdp, hostId }) => ...) up to its
\* first await: ensurePeer() has set pc, or left the one there is
ListenerOnOffer(s) ==
    /\ Arrived(s, "listener", "webrtc-offer")
    /\ LET h == Head(page.inbox[s]).data.hostId
       IN  page' = [page EXCEPT !.inbox[s] = Tail(@),
                                !.hostIdRef[s] = h,
                                !.got[s] = @ \cup {h},
                                !.pc[s] = TRUE,
                                !.tasks[s] = Plus(@, [at |-> 1, hostId |-> h,
                                                      closed |-> FALSE])]
    /\ ServerIdle

\* listener: the webrtc-offer handler task in flight goes on after its await.
\* After await ensurePeer() it calls a method of the global pc, which throws
\* when teardown() has set pc to null and is a call on the new connection
\* when a later offer has made one. A promise of a connection that was closed
\* meanwhile rejects, and the handler stops with that error, whatever pc is by
\* now. The handlers of two offers share pc, which runs the operations it is
\* asked for one after the other: setRemoteDescription(offer) leaves it in
\* have-remote-offer, createAnswer and setLocalDescription(answer) reject in
\* any other state, and setLocalDescription(answer) brings it back to stable.
\* When setRemoteDescription has resolved, pc.ontrack has run animate(),
\* which starts updateStatsLoop(), the first time, and may have run another
\* time; after the last await the handler emits the answer.
ListenerOfferResumes(s, task) ==
    /\ page.kind[s] = "listener"
    /\ BagIn(task, page.tasks[s])
    /\ \/ task.closed
       \/ task.at = 1
       \/ page.chain[s] # <<>> /\ Head(page.chain[s]) = [at |-> task.at, hostId |-> task.hostId]
    /\ LET fails == [page EXCEPT !.tasks[s] = Minus(@, task), !.threw[s] = TRUE]
           calls == [task EXCEPT !.at = @ + 1]
           ran == [page EXCEPT !.chain[s] = Tail(@)]
           next(pg) == [pg EXCEPT !.tasks[s] = Plus(Minus(@, task), calls),
                                  !.chain[s] = Append(@, [at |-> calls.at,
                                                            hostId |-> calls.hostId])]
           rejected == [ran EXCEPT !.tasks[s] = Minus(@, task), !.threw[s] = TRUE]
           described == next([ran EXCEPT !.sig[s] = "have-remote-offer", !.heard[s] = TRUE])
           animated == [described EXCEPT !.asking[s] = Plus(@, [closed |-> FALSE])]
       IN  IF task.closed \/ (task.at = 1 /\ ~page.pc[s])
           THEN page' = fails
           ELSE IF task.at = 1
           THEN page' = next(page)
           ELSE IF Awaits[task.at] = "setRemoteDescription"
           THEN page' \in IF page.heard[s] THEN {animated, described} ELSE {animated}
           ELSE IF page.sig[s] # "have-remote-offer"
           THEN page' = rejected
           ELSE IF Awaits[task.at] = "createAnswer"
           THEN page' = next(ran)
           ELSE page' = [ran EXCEPT
                            !.tasks[s] = Minus(@, task),
                            !.sig[s] = "stable",
                            !.up[s] = TRUE,
                            !.outbox[s] = Append(@, Emit("webrtc-answer", task.hostId, "Y"))]
    /\ ServerIdle

\* listener: the connection was closed while the webrtc-offer handler task in
\* flight awaited one of its promises, and the promise never settles
ListenerOfferAbandoned(s, task) ==
    /\ page.kind[s] = "listener"
    /\ BagIn(task, page.tasks[s])
    /\ task.closed
    /\ page' = [page EXCEPT !.tasks[s] = Minus(@, task)]
    /\ ServerIdle

\* listener: socket.on('host-streaming', ...): a listener that has joined joins again
ListenerOnHostStreaming(s) ==
    /\ Arrived(s, "listener", "host-streaming")
    /\ page' = [page EXCEPT
           !.inbox[s] = Tail(@),
           !.outbox[s] = IF page.enabled[s]
                         THEN Append(@, Emit("viewer-join", Null, "-")) ELSE @]
    /\ ServerIdle

\* listener: socket.on('no-host', ...): the Enable button is shown again
ListenerOnNoHost(s) ==
    /\ Arrived(s, "listener", "no-host")
    /\ page' = [page EXCEPT !.inbox[s] = Tail(@), !.enabled[s] = FALSE]
    /\ ServerIdle

\* listener: socket.on('host-left' | 'host-stopped', ...): teardown()
ListenerOnHostGone(s) ==
    /\ \/ Arrived(s, "listener", "host-left")
       \/ Arrived(s, "listener", "host-stopped")
    /\ page' = Teardown([page EXCEPT !.inbox[s] = Tail(@)], s)
    /\ ServerIdle

\* listener: pc.onconnectionstatechange with connectionState failed or
\* disconnected: teardown(). The callback reads the global pc, and the browser
\* leaves connectionState at new until both descriptions are set.
ListenerPeerState(s) ==
    /\ page.kind[s] = "listener"
    /\ page.pc[s]
    /\ page.up[s]
    /\ Spare
    /\ page' = Teardown([page EXCEPT !.faults = @ + 1], s)
    /\ ServerIdle

\* listener: pc.onicecandidate: pc gathers candidates once its local
\* description is set
ListenerIceCandidate(s) ==
    /\ page.kind[s] = "listener"
    /\ page.pc[s]
    /\ page.up[s]
    /\ page.hostIdRef[s] # Null
    /\ Spare
    /\ page' = [page EXCEPT
           !.outbox[s] = Append(@, Emit("webrtc-ice-candidate", page.hostIdRef[s], "Y")),
           !.signals = @ + 1]
    /\ ServerIdle

\* listener: updateStatsLoop() goes on after await pc.getStats(): the report
\* is computed from what getStats gave and emitted, and the next round is
\* scheduled. getStats of a connection that was closed meanwhile resolves as
\* well or rejects; the catch swallows that and the next round is scheduled
\* without a report.
StatsLoopResumes(s, call) ==
    /\ page.kind[s] = "listener"
    /\ BagIn(call, page.asking[s])
    /\ Spare
    /\ LET silent == [page EXCEPT !.asking[s] = Minus(@, call), !.timers[s] = @ + 1,
                                  !.signals = @ + 1]
           reports(stats, deltaTime) ==
               [silent EXCEPT
                   !.prevBytes[s] = IF stats.inbound THEN stats.bytesReceived ELSE @,
                   !.outbox[s] = Append(@, Emit("listener-stats", Null,
                                     QualityReport(stats, page.prevBytes[s], deltaTime)))]
           reported == {reports(stats, deltaTime) :
                           stats \in StatsSamples, deltaTime \in DeltaTimes}
       IN  page' \in IF call.closed THEN reported \cup {silent} ELSE reported
    /\ ServerIdle

\* listener: setTimeout(updateStatsLoop, 1000) fires: without pc the loop
\* ends, otherwise it awaits pc.getStats()
StatsLoopTimer(s) ==
    /\ page.kind[s] = "listener"
    /\ page.timers[s] > 0
    /\ page' = [page EXCEPT
           !.timers[s] = @ - 1,
           !.asking[s] = IF page.pc[s] THEN Plus(@, [closed |-> FALSE]) ELSE @]
    /\ ServerIdle

\* page s: socket.on('disconnect', ...): the socket is down; what was on its
\* way to the page or from it is lost; the listener page runs teardown(), the
\* host page only updates its display
PageOnDisconnect(pg, s) ==
    LET down == [pg EXCEPT !.online[s] = FALSE, !.inbox[s] = <<>>, !.outbox[s] = <<>>]
    IN  IF pg.kind[s] = "listener" THEN Teardown(down, s) ELSE down

\* the connection of page s is lost, and the server is the first to see it:
\* it runs its disconnect handler while the page still takes its socket for
\* connected
SocketDrops(s) ==
    /\ page.online[s]
    /\ Spare
    /\ OnDisconnect(s)
    /\ page' = [Transport(page, sent', connected') EXCEPT !.faults = @ + 1]

\* the connection of page s is lost, and the page is the first to see it: it
\* runs its disconnect handler while the server still holds the socket
PageDrops(s) ==
    /\ page.online[s]
    /\ s \in connected
    /\ Spare
    /\ page' = PageOnDisconnect([page EXCEPT !.faults = @ + 1], s)
    /\ ServerIdle

\* the server sees, by its ping timeout at the latest, that a socket has
\* gone whose page has lost it, has left it for a new one or was closed
ServerNotices(s) ==
    /\ ~page.online[s]
    /\ OnDisconnect(s)
    /\ page' = Transport(page, sent', connected')

\* page s sees, by its ping timeout at the latest, that its socket has gone
\* which the server has dropped
PageNotices(s) ==
    /\ page.online[s]
    /\ s \notin connected
    /\ page' = PageOnDisconnect(page, s)
    /\ ServerIdle

\* the fields of the page record that are kept per page
PerPage == DOMAIN NoPages \ {"script", "clicks", "closes", "faults", "signals", "limit"}

\* page s is now the page of socket n, and socket s has no page
Moved(pg, s, n) ==
    [f \in DOMAIN pg |->
        IF f \in PerPage
        THEN [pg[f] EXCEPT ![n] = pg[f][s], ![s] = NoPages[f][s]]
        ELSE pg[f]]

\* the socket.io client of page s, whose socket is down, connects again,
\* whether the server has seen the old socket go or not: the page goes on as
\* it is with a socket that has a new id, and what it emitted meanwhile is sent
Reconnect(s) ==
    /\ page.kind[s] # "none"
    /\ ~page.online[s]
    /\ nextId <= page.limit.sockets
    /\ connected' = connected \cup {nextId}
    /\ nextId' = nextId + 1
    /\ Record(Event("connection", nextId), <<>>)
    /\ page' = [Moved(page, s, nextId) EXCEPT !.online[nextId] = TRUE,
                                              !.was[nextId] = @ \cup {s}]
    /\ UNCHANGED <<variant, sessions, nextSweep, advances, hostSocketId, viewers,
                   viewerStats, now>>

\* page s is closed: nothing of it is left, and what it had emitted is lost
\* unless the server has handled it; the server sees the socket go later
ClosePage(s) ==
    /\ page.kind[s] # "none"
    /\ Spare
    /\ page' = [f \in DOMAIN page |->
                   IF f \in PerPage THEN [page[f] EXCEPT ![s] = NoPages[f][s]]
                   ELSE IF f = "closes" THEN page[f] + 1
                   ELSE page[f]]
    /\ ServerIdle

\* the server handles the register-host of page s
ServeRegisterHost(s) ==
    /\ Emitted(s, "register-host")
    /\ OnRegisterHost(s)
    /\ page' = Served(s)

\* the server handles the viewer-join of page s; a join that finds a host
\* starts the viewer's wait for an offer
ServeViewerJoin(s) ==
    /\ Emitted(s, "viewer-join")
    /\ OnViewerJoin(s)
    /\ page' = IF hostSocketId = Null THEN Served(s)
               ELSE [Served(s) EXCEPT
                        !.got[s] = {},
                        !.wait[s] = IF page.audioTrack[hostSocketId]
                                    THEN "late" ELSE "early"]

\* the server handles the announce-streaming of page s
ServeAnnounceStreaming(s) ==
    /\ Emitted(s, "announce-streaming")
    /\ OnAnnounceStreaming(s)
    /\ page' = Served(s)

\* the server handles the host-stopped-streaming of page s
ServeHostStoppedStreaming(s) ==
    /\ Emitted(s, "host-stopped-streaming")
    /\ OnHostStoppedStreaming(s)
    /\ page' = Served(s)

\* the server relays the webrtc-offer of page s
ServeWebrtcOffer(s) ==
    /\ Emitted(s, "webrtc-offer")
    /\ OnWebrtcOffer(s, Head(page.outbox[s]).target, Head(page.outbox[s]).sdp)
    /\ page' = Served(s)

\* the server relays the webrtc-answer of page s
ServeWebrtcAnswer(s) ==
    /\ Emitted(s, "webrtc-answer")
    /\ OnWebrtcAnswer(s, Head(page.outbox[s]).target, Head(page.outbox[s]).sdp)
    /\ page' = Served(s)

\* the server relays the webrtc-ice-candidate of page s
ServeWebrtcIceCandidate(s) ==
    /\ Emitted(s, "webrtc-ice-candidate")
    /\ OnWebrtcIceCandidate(s, Head(page.outbox[s]).target, Head(page.outbox[s]).sdp)
    /\ page' = Served(s)

\* the server stores and forwards the listener-stats of page s
ServeListenerStats(s) ==
    /\ Emitted(s, "listener-stats")
    /\ OnListenerStats(s, Head(page.outbox[s]).sdp)
    /\ page' = Served(s)

\* what the server does for socket s
Serve(s) ==
    \/ ServeRegisterHost(s)
    \/ ServeViewerJoin(s)
    \/ ServeAnnounceStreaming(s)
    \/ ServeHostStoppedStreaming(s)
    \/ ServeWebrtcOffer(s)
    \/ ServeWebrtcAnswer(s)
    \/ ServeWebrtcIceCandidate(s)
    \/ ServeListenerStats(s)
    \/ ServerNotices(s)

\* what page s does with a message, with a promise of its handshake and with
\* a callback that is due
Handle(s) ==
    \/ HostOnViewerJoined(s)
    \/ HostOnViewerLeft(s)
    \/ \E job \in BagToSet(page.jobs[s]) : CreatePeerResumes(s, job)
    \/ \E job \in BagToSet(page.jobs[s]) : CreatePeerStops(s, job)
    \/ OnEnded(s)
    \/ ListenerOnOffer(s)
    \/ \E task \in BagToSet(page.tasks[s]) : ListenerOfferResumes(s, task)
    \/ \E task \in BagToSet(page.tasks[s]) : ListenerOfferAbandoned(s, task)
    \/ ListenerOnHostStreaming(s)
    \/ ListenerOnNoHost(s)
    \/ ListenerOnHostGone(s)
    \/ PageNotices(s)

\* what the browser and the network do to page s when they choose to: the
\* picker closes, a capture ends, a connection or the socket is lost and found
\* again, a candidate is found, a round of the quality report comes up
Browser(s) ==
    \/ StartAudio(s)
    \/ StartAudioNoTrack(s)
    \/ StartAudioDenied(s)
    \/ \E i \in 1..Len(page.streams[s]) : TrackEnded(s, i)
    \/ \E job \in BagToSet(page.jobs[s]) : HostPeerState(s, job)
    \/ \E job \in BagToSet(page.jobs[s]) : HostIceCandidate(s, job)
    \/ ListenerPeerState(s)
    \/ ListenerIceCandidate(s)
    \/ \E call \in BagToSet(page.asking[s]) : StatsLoopResumes(s, call)
    \/ StatsLoopTimer(s)
    \/ SocketDrops(s)
    \/ PageDrops(s)
    \/ Reconnect(s)

NextPage ==
    \/ ConnectHostPage
    \/ ConnectListenerPage
    \/ \E s \in SocketIds : JoinStream(s)
    \/ \E s \in SocketIds : ClickStart(s)
    \/ \E s \in SocketIds : StopAudio(s)
    \/ \E s \in SocketIds : ClosePage(s)
    \/ \E s \in SocketIds : Serve(s)
    \/ \E s \in SocketIds : Handle(s)
    \/ \E s \in SocketIds : Browser(s)

\* the event loops of the server and of the pages do not stop while an event,
\* a message or a callback waits, a promise of the handshake settles, and a
\* socket that is down at one end is seen to be down at the other; the users,
\* the network and the browser's timers owe nothing
FairPage == WF_vars(\E s \in SocketIds : Serve(s) \/ Handle(s))

\* the pages talk to the server of part_004 (the pages never see the one
\* message in which the two servers differ, the stats of an untracked
\* disconnect); the host pages run either host script
InitPage ==
    /\ InitServer
    /\ variant = "part_004"
    /\ hist = [track |-> FALSE, displaced |-> {}]
    /\ page = NoPages

SpecPage == InitPage /\ [][NextPage]_vars /\ FairPage

\* nothing is in flight: the server has handled every emit and the pages
\* every message
Quiet ==
    \A s \in SocketIds : page.outbox[s] = <<>> /\ page.inbox[s] = <<>>

\* what the users do in a run with two listeners: the host page opens first;
\* once the pages are open the users join twice; when that has been handled
\* the host clicks Start, and never Stop; then a listener page may be closed
FlushUsers ==
    \/ nextId = 1 /\ ConnectHostPage
    \/ nextId > 1 /\ ConnectListenerPage
    \/ \E s \in SocketIds : nextId > FlushSockets /\ page.clicks < 2 /\ JoinStream(s)
    \/ \E s \in SocketIds : page.clicks = 2 /\ Quiet /\ ClickStart(s)
    \/ \E s \in SocketIds : page.clicks = 3 /\ page.kind[s] = "listener" /\ ClosePage(s)

\* what the server and the pages do in such a run: all of Serve and Handle but
\* the steps that follow a stop, the end of a capture, the loss of a socket, a
\* candidate or a round of the quality report, which are never enabled in it
FlushLoops ==
    \/ \E s \in SocketIds : ServeRegisterHost(s)
    \/ \E s \in SocketIds : ServeViewerJoin(s)
    \/ \E s \in SocketIds : ServeAnnounceStreaming(s)
    \/ \E s \in SocketIds : ServeWebrtcOffer(s)
    \/ \E s \in SocketIds : ServeWebrtcAnswer(s)
    \/ \E s \in SocketIds : ServerNotices(s)
    \/ \E s \in SocketIds : HostOnViewerJoined(s)
    \/ \E s \in SocketIds : HostOnViewerLeft(s)
    \/ \E s \in SocketIds : \E job \in BagToSet(page.jobs[s]) : CreatePeerResumes(s, job)
    \/ \E s \in SocketIds : \E job \in BagToSet(page.jobs[s]) : CreatePeerStops(s, job)
    \/ \E s \in SocketIds : ListenerOnOffer(s)
    \/ \E s \in SocketIds : \E task \in BagToSet(page.tasks[s]) : ListenerOfferResumes(s, task)
    \/ \E s \in SocketIds : ListenerOnHostStreaming(s)
    \/ \E s \in SocketIds : ListenerOnNoHost(s)

\* the host chooses in the picker once a listener page has been closed; the
\* browser and the network do nothing else: no connection changes its state
\* or finds a candidate, no round of the quality report comes up, no capture
\* ends and no socket is lost
FlushPicker ==
    \/ \E s \in SocketIds : page.closes = 1 /\ StartAudio(s)
    \/ \E s \in SocketIds : page.closes = 1 /\ StartAudioNoTrack(s)
    \/ \E s \in SocketIds : page.closes = 1 /\ StartAudioDenied(s)

\* every run of these steps is a run of NextPage with one more socket, one
\* more click and one more event
NextFlush == FlushUsers \/ FlushPicker \/ FlushLoops

\* a host page of listen.js with up to two listeners
InitFlush ==
    /\ InitServer
    /\ variant = "part_004"
    /\ hist = [track |-> FALSE, displaced |-> {}]
    /\ page = [NoPages EXCEPT !.script = "listen_js",
                              !.limit = [clicks |-> FlushClicks, events |-> FlushEvents,
                                         sockets |-> FlushSockets]]

\* the event loops of the server and of the pages do not stop, as in FairPage
SpecFlush == InitFlush /\ [][NextFlush]_vars /\ WF_vars(FlushLoops)

\* what the users do in a run in which a listener joins late: the host page
\* opens first, then the listener page; the host clicks Start, and never Stop;
\* the listener joins after a click on Start; no page is closed
LateUsers ==
    \/ nextId = 1 /\ ConnectHostPage
    \/ nextId = 2 /\ ConnectListenerPage
    \/ \E s \in SocketIds : ClickStart(s)
    \/ \E s \in SocketIds : page.clicks > 0 /\ JoinStream(s)

\* every run of these steps is a run of NextPage with one more socket
NextLate ==
    \/ LateUsers
    \/ \E s \in SocketIds : Serve(s)
    \/ \E s \in SocketIds : Handle(s)
    \/ \E s \in SocketIds : Browser(s)

\* a host page of listen.js and a listener page
InitLate ==
    /\ InitServer
    /\ variant = "part_004"
    /\ hist = [track |-> FALSE, displaced |-> {}]
    /\ page = [NoPages EXCEPT !.script = "listen_js",
                              !.limit = [clicks |-> LateClicks, events |-> LateEvents,
                                         sockets |-> LateSockets]]

SpecLate == InitLate /\ [][NextLate]_vars /\ FairPage

\* ------------------------------------------------------------ properties
\* what socket s received in the last step
Inbox(s) == Delivered(sent, connected, s)

\* the names of the events of a sequence of messages
Events(seq) == [i \in 1..Len(seq) |-> seq[i].event]

\* how many messages of a sequence carry the event
Count(seq, event) == Cardinality({i \in 1..Len(seq) : seq[i].event = event})

\* the registry as a stats payload, read off the state
Snapshot ==
    [viewerCount |-> Cardinality(KeySet(viewers)),
     hostPresent |-> (hostSocketId \in SocketIds),
     viewerIds |-> [i \in 1..Len(viewers) |-> viewers[i].id]]

\* socket s received a stats message last, and it carries the payload
LastIsStats(s, payload) ==
    LET box == Inbox(s)
    IN  /\ Len(box) > 0
        /\ box[Len(box)].event = "stats"
        /\ box[Len(box)].data = payload

\* the last step was register-host while a host was registered
Replace == ev.name = "register-host" /\ ev.host # Null

\* C2 (amended): register-host from B while A is the host makes B the host and
\* confirms it to B; the viewers stay in ViewerSet as they were and no socket
\* receives host-left.
C2_ReplaceKeepsViewers ==
    Replace =>
        /\ hostSocketId = ev.from
        /\ viewers = ev.viewers
        /\ Count(sent, "host-left") = 0
        /\ Events(Inbox(ev.from)) = <<"host-confirmed", "stats">>

\* C2 witness: B has replaced another host A while two viewers were present
C2_Witness ==
    /\ Replace
    /\ ev.host # ev.from
    /\ hostSocketId = ev.from
    /\ Len(ev.viewers) >= 2

\* C2 as claimed: after registerHost(A) then registerHost(B), B is the host,
\* every viewer present has received host-left and ViewerSet is empty.
C2_ReplaceEvictsViewers ==
    (Replace /\ ev.host # ev.from) =>
        /\ hostSocketId = ev.from
        /\ viewers = <<>>
        /\ \A v \in KeySet(ev.viewers) : Count(Inbox(v), "host-left") >= 1

\* the last step was viewer-join while no host was registered
JoinNoHost == ev.name = "viewer-join" /\ ev.host = Null

\* C3: viewer-join without a host: the caller receives no-host and that is the
\* only message emitted (no viewer-joined, no stats); HostSlot stays empty and
\* ViewerSet stays as it was, which is empty.
C3_JoinWithoutHostRejected ==
    JoinNoHost =>
        /\ Events(Inbox(ev.from)) = <<"no-host">>
        /\ Len(sent) = 1
        /\ \A s \in SocketIds \ {ev.from} : Inbox(s) = <<>>
        /\ hostSocketId = Null
        /\ viewers = ev.viewers
        /\ Len(viewers) = 0

\* C3 witness: a join was refused while another socket was connected
C3_Witness ==
    /\ JoinNoHost
    /\ Count(Inbox(ev.from), "no-host") = 1
    /\ Cardinality(connected) >= 2

\* the last step was viewer-join while a host was registered
JoinWithHost == ev.name = "viewer-join" /\ ev.host # Null

\* what a successful join does besides the count it reports
JoinEffect ==
    /\ hostSocketId = ev.host
    /\ KeySet(viewers) = KeySet(ev.viewers) \cup {ev.from}
    /\ Len(viewers) = Cardinality(KeySet(viewers))
    /\ Count(sent, "viewer-joined") = 1
    /\ Count(Inbox(ev.host), "viewer-joined") = 1
    /\ \A i \in 1..Len(sent) :
           sent[i].event = "viewer-joined" => sent[i].data = [viewerId |-> ev.from]
    /\ sent[Len(sent)].event = "stats" /\ sent[Len(sent)].all

\* C4 (amended): viewer-join from V with host A registered leaves ViewerSet with
\* the key set it had plus V, delivers exactly one viewer-joined{viewerId:V} to
\* A, and is followed by a stats broadcast whose viewerCount is one more than
\* before when V was not yet a viewer, and the same as before when V was one.
C4_JoinCountsNewViewersOnly ==
    JoinWithHost =>
        /\ JoinEffect
        /\ sent[Len(sent)].data.viewerCount =
               Len(ev.viewers) + (IF ev.from \in KeySet(ev.viewers) THEN 0 ELSE 1)

\* C4 witness: a new viewer has joined a host that already had a viewer
C4_Witness ==
    /\ JoinWithHost
    /\ ev.from \notin KeySet(ev.viewers)
    /\ ev.from # ev.host
    /\ Len(viewers) = 2
    /\ LastIsStats(ev.host, Snapshot)

\* C4 as claimed: for any V the stats broadcast after the join reports a
\* viewerCount one more than before.
C4_JoinAlwaysIncrements ==
    JoinWithHost =>
        /\ JoinEffect
        /\ sent[Len(sent)].data.viewerCount = Len(ev.viewers) + 1

\* C5 (amended): a socket is in ViewerSet if and only if it has joined with a
\* host present, has not disconnected since, and the socket that was then or
\* has since become the host has not disconnected since the join.
C5_ViewerIffJoinedAndHostStayed ==
    \A s \in SocketIds : Has(viewers, s) <=> joined[s] = "joined"

\* C5 witness: a socket that joined and is still connected is out of ViewerSet
\* because the host disconnected, while a new host is registered
C5_Witness ==
    \E s \in connected :
        /\ joined[s] = "hostgone"
        /\ ~Has(viewers, s)
        /\ hostSocketId \in connected \ {s}

\* C5 as claimed: a socket is in ViewerSet if and only if it has joined with a
\* host present and has not disconnected since.
C5_ViewerIffJoinedAndConnected ==
    \A s \in SocketIds : Has(viewers, s) <=> joined[s] \in {"joined", "hostgone"}

\* the last step was the disconnect of the host
HostDisconnect == ev.name = "disconnect" /\ ev.from = ev.host

\* what the disconnect of the host does for the viewers in the set vs
HostLeftCascade(vs) ==
    /\ hostSocketId = Null
    /\ viewers = <<>>
    /\ \A v \in vs : Events(Inbox(v)) = <<"host-left", "stats">>
    /\ \A s \in connected :
           LastIsStats(s, [viewerCount |-> 0, hostPresent |-> FALSE, viewerIds |-> <<>>])
    /\ \A s \in connected \ KeySet(ev.viewers) : Events(Inbox(s)) = <<"stats">>

\* C6 as claimed: when the host disconnects, HostSlot is cleared, ViewerSet is
\* emptied, every identifier that was in ViewerSet just before the disconnect
\* receives host-left and then the stats snapshot {viewerCount 0, hostPresent
\* false}, which every connected socket receives.
C6_HostLeftToAllViewers ==
    HostDisconnect => HostLeftCascade(KeySet(ev.viewers))

\* the last step was the disconnect of a viewer that was not the host
ViewerDisconnect ==
    /\ ev.name = "disconnect"
    /\ ev.from # ev.host
    /\ ev.from \in KeySet(ev.viewers)

\* C7: when a viewer that is not the host disconnects, exactly its entry leaves
\* ViewerSet (the other entries keep their value and order), HostSlot is
\* unchanged, the host receives exactly one viewer-left{viewerId} and then the
\* stats broadcast, which every other connected socket receives too.
C7_ViewerDisconnectRemovesOne ==
    ViewerDisconnect =>
        LET k == CHOOSE i \in 1..Len(ev.viewers) : ev.viewers[i].id = ev.from
        IN  /\ Len(viewers) = Len(ev.viewers) - 1
            /\ \A i \in 1..Len(viewers) :
                   viewers[i] = ev.viewers[IF i < k THEN i ELSE i + 1]
            /\ hostSocketId = ev.host
            /\ ev.host \in connected
            /\ Count(sent, "viewer-left") = 1
            /\ sent[1] = [all |-> FALSE, to |-> ev.host, event |-> "viewer-left",
                          data |-> [viewerId |-> ev.from]]
            /\ Events(Inbox(ev.host)) = <<"viewer-left", "stats">>
            /\ \A s \in connected \ {ev.host} : Events(Inbox(s)) = <<"stats">>

\* C7 witness: the first of two viewers has disconnected
C7_Witness ==
    /\ ViewerDisconnect
    /\ Len(ev.viewers) = 2
    /\ ev.viewers[1].id = ev.from
    /\ Len(viewers) = 1
    /\ Count(Inbox(ev.host), "viewer-left") = 1

\* C8 as claimed: the disconnect of a socket that is neither the host nor in
\* ViewerSet changes neither HostSlot, ViewerSet nor the quality reports and
\* emits no message, stats included.
C8_UntrackedDisconnectSilent ==
    [][(/\ ev'.name = "disconnect"
        /\ ev'.from # hostSocketId
        /\ ~Has(viewers, ev'.from))
       => (/\ UNCHANGED <<hostSocketId, viewers, viewerStats>>
           /\ sent' = <<>>)]_vars

\* C9: every stats message emitted carries the size of ViewerSet, whether
\* HostSlot is set, and the keys of ViewerSet, as they are when it is emitted.
C9_StatsIsSnapshot ==
    \A i \in 1..Len(sent) :
        sent[i].event = "stats" =>
            /\ sent[i].data.viewerCount = Cardinality(KeySet(viewers))
            /\ sent[i].data.hostPresent = (hostSocketId \in SocketIds)
            /\ sent[i].data.viewerIds = [j \in 1..Len(viewers) |-> viewers[j].id]

\* C9 witness: a stats message reporting no host was emitted on the host's
\* disconnect from two viewers
C9_Witness ==
    /\ Count(sent, "stats") = 1
    /\ ev.name = "disconnect"
    /\ Len(ev.viewers) >= 2
    /\ ~sent[Len(sent)].data.hostPresent

\* the last step changed HostSlot or ViewerSet
RegistryChanged == hostSocketId # ev.host \/ viewers # ev.viewers

\* C10: a step that changes HostSlot or ViewerSet ends with a stats broadcast
\* that every connected socket receives, and between events the last stats
\* payload broadcast is the registry as it is (before the first broadcast the
\* registry is empty).
C10_StatsFollowsEveryMutation ==
    /\ lastStats = NoStats => (hostSocketId = Null /\ viewers = <<>>)
    /\ lastStats # NoStats => lastStats = Snapshot
    /\ RegistryChanged =>
           /\ Len(sent) > 0
           /\ sent[Len(sent)].all
           /\ \A s \in connected : LastIsStats(s, Snapshot)

\* C10 witness: a join changed ViewerSet while three sockets were connected
C10_Witness ==
    /\ RegistryChanged
    /\ ev.name = "viewer-join"
    /\ Cardinality(connected) >= 3
    /\ \A s \in connected : LastIsStats(s, lastStats)

\* the last step was a relay of an offer, an answer or an ICE candidate
RelayNames == {"webrtc-offer", "webrtc-answer", "webrtc-ice-candidate"}

RelayStep == ev.name \in RelayNames

\* the message a relay is to deliver: the value sent, and the sender under the
\* key of the event
Relayed ==
    [all |-> FALSE, to |-> ev.target, event |-> ev.name,
     data |-> IF ev.name = "webrtc-offer" THEN [sdp |-> ev.sdp, hostId |-> ev.from]
              ELSE IF ev.name = "webrtc-answer" THEN [sdp |-> ev.sdp, viewerId |-> ev.from]
              ELSE [candidate |-> ev.sdp, from |-> ev.from]]

\* C11: a relay to a connected target delivers to it exactly one message:
\* {sdp, hostId: sender} for an offer, {sdp, viewerId: sender} for an answer,
\* {candidate, from: sender} for an ICE candidate, with the value that was
\* sent; no other socket receives anything.
C11_RelayPreservesContent ==
    (RelayStep /\ ev.target \in connected) =>
        /\ Inbox(ev.target) = <<Relayed>>
        /\ \A s \in SocketIds \ {ev.target} : Inbox(s) = <<>>

\* C11 witness: a viewer's ICE candidate "Y" has reached the host
C11_Witness ==
    /\ ev.name = "webrtc-ice-candidate"
    /\ ev.sdp = "Y"
    /\ ev.target = hostSocketId
    /\ Has(viewers, ev.from)
    /\ ev.from # ev.target
    /\ Len(Inbox(ev.target)) = 1
    /\ Inbox(ev.target)[1].data = [candidate |-> "Y", from |-> ev.from]

\* a member of the registry: the host or a viewer
InRegistry(id) == id = hostSocketId \/ Has(viewers, id)

\* C12 as claimed: a relayed message is delivered only if its sender and its
\* target are both in the registry (the host or in ViewerSet).
C12_RelayOnlyWithinRegistry ==
    (RelayStep /\ \E s \in SocketIds : Inbox(s) # <<>>) =>
        (InRegistry(ev.from) /\ InRegistry(ev.target))

\* C13: a relay whose target is no connected socket, or an ICE relay with an
\* empty targetId, delivers no message to any socket, the sender included, and
\* leaves HostSlot and ViewerSet as they were.
C13_RelayToDeadTargetDropped ==
    (RelayStep /\ ev.target \notin connected) =>
        /\ \A s \in SocketIds : Inbox(s) = <<>>
        /\ \A i \in 1..Len(sent) : ~sent[i].all /\ sent[i].to = ev.target
        /\ hostSocketId = ev.host
        /\ viewers = ev.viewers

\* C13 witness: the host has sent an offer to a viewer that had disconnected
C13_Witness ==
    /\ ev.name = "webrtc-offer"
    /\ ev.from = hostSocketId
    /\ ev.target \in SocketIds
    /\ ev.target < nextId
    /\ ev.target \notin connected
    /\ \A s \in SocketIds : Inbox(s) = <<>>

\* C15: the relay handlers leave HostSlot, ViewerSet, the quality reports and
\* SessionStore as they are and emit no stats.
C15_RelayIsStateless ==
    [][ev'.name \in RelayNames =>
          /\ UNCHANGED <<hostSocketId, viewers, viewerStats, sessions, lastStats>>
          /\ Count(sent', "stats") = 0]_vars

\* C15 witness: an answer has been relayed to the host while a viewer is in
\* ViewerSet
C15_Witness ==
    /\ ev.name = "webrtc-answer"
    /\ ev.target = hostSocketId
    /\ Len(viewers) >= 1
    /\ Len(Inbox(ev.target)) = 1
    /\ hostSocketId = ev.host
    /\ viewers = ev.viewers

\* the last step was announce-streaming from the host
AnnounceByHost == ev.name = "announce-streaming" /\ ev.from = ev.host

\* C16 (amended): announce-streaming from the current host sends to the host
\* one viewer-joined{viewerId: v} for every viewer v of ViewerSet, in the order
\* of the set, and then broadcasts host-streaming to every connection; the
\* viewers themselves receive host-streaming only, and HostSlot and ViewerSet
\* are unchanged.
C16_AnnounceRenotifiesHost ==
    AnnounceByHost =>
        /\ hostSocketId = ev.host
        /\ viewers = ev.viewers
        /\ Len(sent) = Len(viewers) + 1
        /\ \A i \in 1..Len(viewers) :
               sent[i] = [all |-> FALSE, to |-> ev.host, event |-> "viewer-joined",
                          data |-> [viewerId |-> viewers[i].id]]
        /\ sent[Len(sent)].event = "host-streaming" /\ sent[Len(sent)].all
        /\ \A s \in connected \ {ev.host} : Events(Inbox(s)) = <<"host-streaming">>

\* C16 witness: the host has announced streaming to two viewers
C16_Witness ==
    /\ AnnounceByHost
    /\ Len(viewers) = 2
    /\ ~Has(viewers, ev.host)
    /\ Count(Inbox(ev.host), "viewer-joined") = 2

\* C16 as claimed: announce-streaming from the current host sends a
\* viewer-joined to every current viewer and host-streaming to every
\* connection, with HostSlot and ViewerSet unchanged.
C16_AnnounceNotifiesViewers ==
    AnnounceByHost =>
        /\ hostSocketId = ev.host
        /\ viewers = ev.viewers
        /\ \A v \in KeySet(viewers) : Count(Inbox(v), "viewer-joined") >= 1
        /\ \A s \in connected : Count(Inbox(s), "host-streaming") = 1

\* C17: announce-streaming or host-stopped-streaming from a socket that is not
\* the current host emits nothing and changes nothing.
C17_NonHostAnnounceIgnored ==
    [][(/\ ev'.name \in {"announce-streaming", "host-stopped-streaming"}
        /\ ev'.from # hostSocketId)
       => (/\ sent' = <<>>
           /\ UNCHANGED <<hostSocketId, viewers, viewerStats, sessions, lastStats,
                          connected>>)]_vars

\* C17 witness: a viewer has sent host-stopped-streaming while another socket
\* is the host and a second viewer is present
C17_Witness ==
    /\ ev.name = "host-stopped-streaming"
    /\ ev.host # Null
    /\ ev.from # ev.host
    /\ Has(viewers, ev.from)
    /\ Len(viewers) = 2
    /\ sent = <<>>

\* the last step was host-stopped-streaming from the host
StopByHost == ev.name = "host-stopped-streaming" /\ ev.from = ev.host

\* C18: host-stopped-streaming from the current host delivers host-stopped to
\* every member of ViewerSet and to no other socket; the host stays
\* registered, ViewerSet is unchanged and no stats is emitted.
C18_HostStoppedKeepsState ==
    StopByHost =>
        /\ hostSocketId = ev.from
        /\ viewers = ev.viewers
        /\ \A v \in KeySet(viewers) : Events(Inbox(v)) = <<"host-stopped">>
        /\ \A s \in SocketIds \ KeySet(viewers) : Inbox(s) = <<>>
        /\ Len(sent) = Len(viewers)
        /\ Count(sent, "stats") = 0

\* C18 witness: the host has stopped streaming to two viewers
C18_Witness ==
    /\ StopByHost
    /\ Len(viewers) = 2
    /\ ~Has(viewers, ev.host)
    /\ \A v \in KeySet(viewers) : Count(Inbox(v), "host-stopped") = 1

\* the last step was a request for the host page
GateStep == ev.name = "GET /"

\* the session token a request supplies: the session query parameter, else
\* the x-session-id header
Supplied(req) == IF req.query # NoToken THEN req.query ELSE req.header

\* the supplied token resolves in the store to a session with role host
ResolvesToHost(req) ==
    /\ Supplied(req) # NoToken
    /\ \E i \in 1..Len(sessions) :
           sessions[i].id = Supplied(req) /\ sessions[i].role = "host"

\* the origins the gate's description lists as loopback
ListedLoopback(req) ==
    req.ip = "127.0.0.1" \/ req.ip = "::1" \/ req.hostname = "localhost"

\* C19 (amended): GET / is served if and only if the origin is loopback
\* (127.0.0.1, ::1, the IPv4-mapped ::ffff:127.0.0.1, or hostname localhost)
\* or the supplied session token resolves in SessionStore to a record with
\* role host; every other request is redirected to /listen.
C19_GateServesLoopbackOrHostSession ==
    GateStep =>
        /\ ev.res \in {"next", "redirect"}
        /\ ev.res = "next" <=>
               (ListedLoopback(ev.req) \/ ev.req.ip = "::ffff:127.0.0.1"
                \/ ResolvesToHost(ev.req))

\* C19 witness: a request from the network with the token of a host session
\* was served while the store also holds a session of another role
C19_Witness ==
    /\ GateStep
    /\ ~IsLocalhost(ev.req)
    /\ ResolvesToHost(ev.req)
    /\ \E i \in 1..Len(sessions) : sessions[i].role = "viewer"
    /\ ev.res = "next"

\* C19 as claimed: GET / is served if and only if the origin is loopback
\* (127.0.0.1, ::1 or hostname localhost) or the supplied session token
\* resolves to a record with role host; otherwise it is redirected.
C19_GateServesListedLoopbackOrHostSession ==
    GateStep =>
        /\ ev.res \in {"next", "redirect"}
        /\ ev.res = "next" <=> (ListedLoopback(ev.req) \/ ResolvesToHost(ev.req))

\* the supplied token is that of a host session older than the maximum age
PresentsExpiredHostSession(req) ==
    /\ Supplied(req) # NoToken
    /\ \E i \in 1..Len(sessions) :
           /\ sessions[i].id = Supplied(req)
           /\ sessions[i].role = "host"
           /\ now - sessions[i].createdAt > SESSION_MAX_AGE

\* C20: a non-loopback request for the host page presenting the token of a
\* host session whose age exceeds the maximum age is redirected, whenever it
\* arrives relative to the periodic sweep.
C20_ExpiredSessionRedirected ==
    (GateStep /\ ~IsLocalhost(ev.req) /\ PresentsExpiredHostSession(ev.req))
        => ev.res = "redirect"

\* the sessions of a store that are older than the maximum age at time t
Expired(ss, t) == {ss[i] : i \in {j \in 1..Len(ss) : t - ss[j].createdAt > SESSION_MAX_AGE}}

\* the sessions of a store
SessionSet(ss) == {ss[i] : i \in 1..Len(ss)}

\* C21: a run of the session sweep removes exactly the sessions whose age is
\* greater than the maximum age and keeps every other session; HostSlot,
\* ViewerSet and the quality reports are unchanged and nothing is emitted.
C21_SweepRemovesExpiredOnly ==
    [][ev'.name = "session-cleanup"
       => (/\ SessionSet(sessions') = SessionSet(sessions) \ Expired(sessions, now)
           /\ Len(sessions') = Cardinality(SessionSet(sessions'))
           /\ UNCHANGED <<hostSocketId, viewers, viewerStats, connected, lastStats>>
           /\ sent' = <<>>)]_vars

\* C21 witness: a sweep has removed one session and kept another of exactly
\* the maximum age, while a host and a viewer are registered
C21_Witness ==
    /\ ev.name = "session-cleanup"
    /\ Len(ev.sessions) > Len(sessions)
    /\ \E i \in 1..Len(sessions) : now - sessions[i].createdAt = SESSION_MAX_AGE
    /\ hostSocketId # Null
    /\ Len(viewers) >= 1

\* the last step was register-host from a socket other than the host it found
Displace == Replace /\ ev.from # ev.host

\* C22: when register-host from B replaces host A, B receives host-confirmed
\* and A receives nothing but the stats broadcast: no emit call of the step
\* is addressed to A.
C22_DisplacedHostNotTold ==
    Displace =>
        /\ Count(Inbox(ev.from), "host-confirmed") = 1
        /\ Events(Inbox(ev.host)) = <<"stats">>
        /\ \A i \in 1..Len(sent) : sent[i].all \/ sent[i].to # ev.host

\* C22 witness: the displaced host is still connected and has received the
\* stats broadcast of the replacement, which names a host and a viewer
C22_Witness ==
    /\ Displace
    /\ ev.host \in connected
    /\ hostSocketId = ev.from
    /\ Len(viewers) >= 1
    /\ Count(Inbox(ev.host), "stats") = 1

\* C23: no connection identifier is at once the host and a member of
\* ViewerSet (each identifier is in exactly one of Unregistered, Host, Viewer).
C23_HostNeverViewer == hostSocketId = Null \/ ~Has(viewers, hostSocketId)

\* the last step was a quality report
ReportStep == ev.name = "listener-stats"

\* C24: every listener-stats message delivered to the host carries the
\* viewerId of the socket that sent the report, whatever the payload; a
\* report sent while no host is registered is neither stored nor forwarded.
C24_ReportTaggedWithSender ==
    ReportStep =>
        IF ev.host = Null
        THEN sent = <<>> /\ viewerStats = ev.stats
        ELSE \A i \in 1..Len(sent) :
                 sent[i].event = "listener-stats" => sent[i].data.viewerId = ev.from

\* C25: after a listener-stats report from V while a host is present, the
\* stored record of V holds exactly the fields of that report and the
\* timestamp of its arrival, nothing of an earlier report; the records of the
\* other sockets are as they were.
C25_StoredReportIsLatestOnly ==
    (ReportStep /\ ev.host # Null) =>
        /\ ev.from \in DOMAIN viewerStats
        /\ DOMAIN viewerStats[ev.from] = (DOMAIN ev.payload) \cup {"timestamp"}
        /\ viewerStats[ev.from].timestamp = now
        /\ \A f \in (DOMAIN ev.payload) \ {"timestamp"} :
               viewerStats[ev.from][f] = ev.payload[f]
        /\ DOMAIN viewerStats = (DOMAIN ev.stats) \cup {ev.from}
        /\ \A v \in (DOMAIN ev.stats) \ {ev.from} : viewerStats[v] = ev.stats[v]

\* C25 witness: a viewer whose stored report had rttMs has reported jitterMs
\* only, and the stored record no longer has rttMs
C25_Witness ==
    /\ ReportStep
    /\ ev.host # Null
    /\ Has(viewers, ev.from)
    /\ ev.from \in DOMAIN ev.stats
    /\ "rttMs" \in DOMAIN ev.stats[ev.from]
    /\ ev.payload = [jitterMs |-> 5]
    /\ "rttMs" \notin DOMAIN viewerStats[ev.from]

\* the last step was disconnect-viewer
KickStep == ev.name = "disconnect-viewer"

\* C26: disconnect-viewer{viewerId} delivers disconnect-request to viewerId
\* exactly when viewerId is in ViewerSet and delivers nothing otherwise; in
\* both cases HostSlot and ViewerSet stay as they were.
C26_DisconnectViewerOnlyAsks ==
    KickStep =>
        /\ hostSocketId = ev.host
        /\ viewers = ev.viewers
        /\ \A s \in SocketIds :
               Inbox(s) = IF s = ev.target /\ Has(viewers, ev.target)
                          THEN <<[all |-> FALSE, to |-> s,
                                  event |-> "disconnect-request", data |-> NoData]>>
                          ELSE <<>>

\* C26 witness: the host has asked a viewer to disconnect; the viewer has the
\* request and is still in ViewerSet
C26_Witness ==
    /\ KickStep
    /\ ev.from = hostSocketId
    /\ ev.target # ev.from
    /\ Has(viewers, ev.target)
    /\ Count(Inbox(ev.target), "disconnect-request") = 1

\* C27: in the run where host A registers, viewer B joins, A offers X to B, B
\* answers Y to A and A disconnects: after the join stats shows one viewer
\* and a host; the offer reaches B as {sdp: X, hostId: A}; the answer reaches
\* A as {sdp: Y, viewerId: B}; on A's disconnect B receives host-left and then
\* stats with no viewer and no host.
C27_EndToEndRun ==
    /\ scenario.step = 2 =>
           /\ LastIsStats(scenario.b, [viewerCount |-> 1, hostPresent |-> TRUE,
                                       viewerIds |-> <<scenario.b>>])
           /\ Count(Inbox(scenario.a), "viewer-joined") = 1
    /\ scenario.step = 3 =>
           Inbox(scenario.b) = <<[all |-> FALSE, to |-> scenario.b, event |-> "webrtc-offer",
                                  data |-> [sdp |-> "X", hostId |-> scenario.a]]>>
    /\ scenario.step = 4 =>
           Inbox(scenario.a) = <<[all |-> FALSE, to |-> scenario.a, event |-> "webrtc-answer",
                                  data |-> [sdp |-> "Y", viewerId |-> scenario.b]]>>
    /\ scenario.step = 5 =>
           /\ Events(Inbox(scenario.b)) = <<"host-left", "stats">>
           /\ LastIsStats(scenario.b, [viewerCount |-> 0, hostPresent |-> FALSE,
                                       viewerIds |-> <<>>])

\* C27 witness: the run has been followed to its end
C27_Witness ==
    /\ scenario.step = 5
    /\ scenario.a # scenario.b
    /\ hostSocketId = Null
    /\ viewers = <<>>

\* C30: whenever no host is registered, ViewerSet is empty.
C30_NoHostNoViewers == hostSocketId = Null => Len(viewers) = 0

\* C30 witness: the host has disconnected while two viewers were in ViewerSet
C30_Witness ==
    /\ ev.name = "disconnect"
    /\ ev.from = ev.host
    /\ Len(ev.viewers) = 2
    /\ hostSocketId = Null
    /\ viewers = <<>>

\* the sockets of the pages
PageIds == 1..PageSockets

\* the sockets of a host page and a listener that joins late
LateIds == 1..LateSockets

\* the sockets of the host page that registers in such a run: it opens first
LateHosts == {1}

\* where the page is whose socket is or was h
PageOf(h) == {s \in SocketIds : s = h \/ h \in page.was[s]}

\* the ids the socket of the page of h has and had
IdsOf(h) == UNION {{s} \cup page.was[s] : s \in PageOf(h)}

\* the host page whose socket is or was h is streaming: it is open, its socket
\* is connected and its audio track is set
Streams(h) ==
    \E s \in PageOf(h) :
        page.kind[s] = "host" /\ page.online[s] /\ page.audioTrack[s]

\* listener page v stays connected: its socket is up at both ends
Stays(v) == v \in connected /\ page.online[v]

\* host page h is still the registered host and still has its audio track
HostKeeps(h) == hostSocketId = h /\ page.audioTrack[h]

\* the server has just taken listener v into ViewerSet for host h while the
\* host page was streaming
LateJoin(v, h) ==
    /\ ev.name = "viewer-join"
    /\ ev.from = v
    /\ ev.host = h
    /\ h # Null
    /\ Streams(h)

\* C28 as claimed: a viewer that joins while the host page is streaming
\* receives a webrtc-offer whose hostId is the host page's, provided the viewer
\* stays connected, for as long as the host page is streaming; the server
\* handles every event and the pages handle every message. Viewer and host are
\* two pages: no page is both.
C28_LateJoinerGetsOffer ==
    \A v \in LateIds \ LateHosts : \A h \in LateHosts :
        LateJoin(v, h) ~> (page.got[v] \cap IdsOf(h) # {} \/ ~Stays(v) \/ ~Streams(h))

\* the sockets of a host page and its listeners
FlushIds == 1..FlushSockets

\* host page h, the registered host, has just started its audio while v was
\* in ViewerSet
StartFinds(v, h) ==
    /\ ev.name = "start-audio"
    /\ ev.from = h
    /\ ev.host = h
    /\ Has(ev.viewers, v)

\* C29 as claimed: every viewer that is in ViewerSet when the host starts
\* streaming, a restart after a stop included, receives a webrtc-offer from the
\* host, provided the viewer stays connected, for as long as the host keeps
\* its audio track and stays the host.
C29_EarlyViewersGetOffer ==
    \A v \in FlushIds, h \in FlushIds :
        StartFinds(v, h) ~> (h \in page.got[v] \/ v \notin connected \/ ~HostKeeps(h))

\* C31: the registry never references a dead connection: the id in HostSlot
\* and every id in ViewerSet belong to sockets that are still connected.
C31_RegistryOnlyLiveSockets ==
    /\ hostSocketId # Null => hostSocketId \in connected
    /\ KeySet(viewers) \subseteq connected

\* C31 witness: a viewer has disconnected and left a host and another viewer
\* behind in the registry
C31_Witness ==
    /\ ev.name = "disconnect"
    /\ Has(ev.viewers, ev.from)
    /\ ev.from \notin connected
    /\ hostSocketId \in connected
    /\ viewers # <<>>

\* the evictions: the sockets that received disconnect-request in the last step
Evicted == {s \in SocketIds : Count(Inbox(s), "disconnect-request") > 0}

\* C35 as claimed: disconnect-request is delivered to a viewer only as the
\* result of a disconnect-viewer message sent by the current host.
C35_OnlyHostEvicts ==
    Evicted # {} => KickStep /\ ev.host # Null /\ ev.from = ev.host

\* C36 as claimed: the sockets that have a stored quality report are all in
\* ViewerSet.
C36_ReportsOnlyOfViewers ==
    DOMAIN viewerStats \subseteq KeySet(viewers)

\* the last step was viewer-join from a socket that was already a viewer, with
\* a host registered
ReJoin == JoinWithHost /\ Has(ev.viewers, ev.from)

\* C37: viewer-join from a socket already in ViewerSet, with a host present,
\* leaves ViewerSet with the same keys in the same order and the same size,
\* refreshes only that socket's createdAt, sends the host another
\* viewer-joined and broadcasts stats again.
C37_ReJoinKeepsKeySet ==
    ReJoin =>
        /\ Keys(viewers) = Keys(ev.viewers)
        /\ Cardinality(KeySet(viewers)) = Len(viewers)
        /\ \A i \in 1..Len(viewers) :
               viewers[i] = IF ev.viewers[i].id = ev.from
                            THEN [id |-> ev.from, createdAt |-> now]
                            ELSE ev.viewers[i]
        /\ Count(Inbox(ev.host), "viewer-joined") = 1
        /\ LastIsStats(ev.host, Snapshot)

\* C37 witness: a viewer that is not the host has joined again at a later
\* time, and its createdAt has moved
C37_Witness ==
    /\ ReJoin
    /\ ev.from # ev.host
    /\ \E i \in 1..Len(viewers) :
           /\ viewers[i].id = ev.from
           /\ viewers[i].createdAt # ev.viewers[i].createdAt

\* the last step was the disconnect of a socket that another host had displaced
DisplacedLeaves == ev.name = "disconnect" /\ ev.from \in ev.displaced

\* every stats message of the last step reports the registry as it now is
StatsAreSnapshot ==
    \A i \in 1..Len(sent) : sent[i].event = "stats" => sent[i].data = Snapshot

\* C32 (amended): the disconnect of a displaced host A leaves HostSlot as it
\* was, takes nothing out of ViewerSet but A's own entry (which is there when A
\* had itself joined as a viewer), sends host-left to nobody, and the stats it
\* triggers report hostPresent true as long as a host is registered.
C32_DisplacedHostLeavesQuietly ==
    DisplacedLeaves =>
        /\ hostSocketId = ev.host
        /\ viewers = SelectSeq(ev.viewers, LAMBDA e : e.id # ev.from)
        /\ Count(sent, "host-left") = 0
        /\ StatsAreSnapshot
        /\ lastStats.hostPresent = (hostSocketId # Null) \/ lastStats = NoStats

\* C32 witness: a displaced host that was no viewer has disconnected while its
\* successor is the host and has a viewer
C32_Witness ==
    /\ DisplacedLeaves
    /\ ~Has(ev.viewers, ev.from)
    /\ hostSocketId \in connected
    /\ viewers # <<>>
    /\ viewers = ev.viewers

\* C32 as claimed: the disconnect of a displaced host leaves HostSlot and
\* ViewerSet unchanged and sends no host-left.
C32_DisplacedHostChangesNothing ==
    DisplacedLeaves =>
        /\ hostSocketId = ev.host
        /\ viewers = ev.viewers
        /\ Count(sent, "host-left") = 0
        /\ StatsAreSnapshot

\* the last step made a socket the host that was not the host before
NewHost == ev.name = "register-host" /\ ev.from # ev.host

\* C33 as claimed, for the step in which a socket becomes the host: for every
\* viewer in ViewerSet the new host has been sent viewer-joined with that
\* viewer's id.
C33_NewHostToldOfEveryViewer ==
    NewHost =>
        \A v \in KeySet(viewers) :
            \E i \in 1..Len(sent) :
                /\ sent[i].event = "viewer-joined"
                /\ ~sent[i].all /\ sent[i].to = hostSocketId
                /\ sent[i].data = [viewerId |-> v]

\* the handshake of a connection, as a request the gate could judge: the first
\* connection of a run comes from a remote address and carries no session
\* token, the later ones come from loopback
Handshake(s) ==
    [ip |-> IF s = 1 THEN "192.168.1.5" ELSE "127.0.0.1",
     hostname |-> IF s = 1 THEN "192.168.1.5" ELSE "localhost",
     query |-> NoToken, header |-> NoToken]

\* the connection would be served the host page
PassesGate(s) == RequireHostAccess(Handshake(s), sessions) = "next"

\* C34 as claimed: the connection in HostSlot has a loopback origin or holds a
\* valid host session.
C34_HostPassesGate ==
    hostSocketId # Null => PassesGate(hostSocketId)

\* C40 as claimed: once the host page has handled what it was sent, its
\* pending set holds only ids of viewers that are still in ViewerSet.
C40_PendingOnlyViewers ==
    \A h \in PageIds :
        (Quiet /\ page.kind[h] = "host" /\ h = hostSocketId) =>
            \A i \in 1..Len(page.pending[h]) : Has(viewers, page.pending[h][i])

\* C38 as claimed: since the host page last started audio, it has made at most
\* one peer connection, and so sent at most one webrtc-offer, for each viewer
\* that was in ViewerSet at the start.
C38_OneOfferPerViewerPerStart ==
    \A h \in PageIds, v \in PageIds : page.made[h][v] <= 1

\* C39 as claimed: no webrtc-offer handler of a listener page stops with an
\* error, whatever teardown interleaves with it.
C39_OfferHandlerNeverFails ==
    \A s \in PageIds : ~page.threw[s]
====
